---- MODULE Spec2Model ----
(***************************************************************************)
(* Model of models/gemini.py (the model-call functions, their tenacity     *)
(* retry envelope, their request builders and decoders) and of the         *)
(* generation handler of pages/gemini_writers_workshop.py.                 *)
(*                                                                         *)
(* Spec      : one invocation of a model-call function, attempt by         *)
(*             attempt, either called directly or from the Writers         *)
(*             Workshop page.                                              *)
(* SpecBuild : the request builders applied to bounded inputs.             *)
(* SpecDecode: one invocation, with the response and its decoding in       *)
(*             detail.                                                     *)
(* SpecConc  : two invocations of decorated functions running at once.     *)
(* SpecWrap  : a wrapper function of gemini.py around its model call.      *)
(* SpecMedia : the media slots of the Writers Workshop page.                *)
(* SpecPage  : the prompt and generation events of the page;               *)
(*             SpecPageLive adds that a handler in progress is run on.     *)
(***************************************************************************)
EXTENDS Integers, Sequences, FiniteSets, TLC

VARIABLES
    fn,              \* the model-call function being invoked ("" before the call)
    caller,          \* "none" | "direct" | "page"
    pc,              \* "idle" | "attempting" | "sleeping" | "returned" | "raised"
    attempt_number,  \* tenacity's retry_state.attempt_number
    attempts,        \* one record per executed attempt of the function body
    waits,           \* the sleeps tenacity made between attempts, in seconds
    obs,             \* observations finalized by track_model_call scopes
    remote_calls,    \* number of client.models.generate_content calls made
    outcome,         \* what the caller of the function received
    clock,           \* wall-clock time, in seconds
    start_time,      \* clock value when the invocation started
    page,            \* PageState of the Writers Workshop page
    page_pc,         \* "idle" | "generating" | "done" | "escaped"
    args,            \* inputs handed to a request builder
    request,         \* the ordered segments a builder produced
    builder,         \* the builder that produced request ("" before)
    calls,           \* the state of each of two invocations running at once
    wrapper,         \* the function that wraps a model-call function, if any
    handlers,        \* the Writers Workshop event handlers in progress
    event            \* the last event the page delivered to a handler

vars == <<fn, caller, pc, attempt_number, attempts, waits, obs, remote_calls,
          outcome, clock, start_time, page, page_pc, args, request, builder,
          calls, wrapper, handlers, event>>

envVars == <<fn, caller, pc, attempt_number, attempts, waits, obs,
             remote_calls, outcome, clock, start_time, page, page_pc>>

buildVars == <<args, request, builder>>

hostVars == <<wrapper, handlers, event>>

(***************************************************************************)
(* Bounds of the model.                                                    *)
(***************************************************************************)
MaxCallTime == 1     \* an attempt's body takes 1..MaxCallTime seconds
NumMessages == 2     \* distinct error messages the remote service may raise
MaxImages == 2       \* attachments handed to a request builder

(***************************************************************************)
(* The retry policy written on every decorated function.                   *)
(***************************************************************************)
StopAfterAttempt == 3
WaitMultiplier == 1
WaitMin == 1
WaitMax == 10
ExpBase == 2

(***************************************************************************)
(* The model-call functions of models/gemini.py: every function that calls *)
(* client.models.generate_content.                                         *)
(***************************************************************************)
DecoratedFunctions ==
    { "extract_room_names_from_image", "rewriter", "analyze_audio_with_gemini",
      "image_critique", "get_facial_composite_profile",
      "get_natural_language_description", "generate_final_scene_prompt",
      "select_best_image", "generate_transformation_prompts", "describe_image",
      "describe_video", "evaluate_media_with_questions",
      "evaluate_image_with_questions", "generate_critique_questions",
      "generate_text", "evaluate_tts_audio" }

UndecoratedFunctions ==
    { "generate_image_from_prompt_and_images",
      "select_best_image_with_description", "final_image_critic",
      "describe_images_and_look" }

ModelCallFunctions == DecoratedFunctions \cup UndecoratedFunctions

Decorated(f) == f \in DecoratedFunctions

\* The functions that decode response.text with <Model>.model_validate_json.
PydanticFunctions ==
    { "extract_room_names_from_image", "get_facial_composite_profile",
      "generate_final_scene_prompt", "select_best_image",
      "select_best_image_with_description", "final_image_critic",
      "describe_images_and_look", "generate_transformation_prompts",
      "evaluate_media_with_questions", "evaluate_image_with_questions",
      "generate_critique_questions", "evaluate_tts_audio" }

\* The functions that return response.text.strip().
StripFunctions ==
    { "get_natural_language_description", "describe_image", "describe_video" }

\* The functions that return response.text as it is.
RawTextFunctions == { "rewriter", "generate_text" }

\* The task keyword each function passes to track_model_call ("" = none).
TaskLabel(f) ==
    CASE f = "generate_image_from_prompt_and_images" -> ""
      [] f = "extract_room_names_from_image" -> "extract_room_names"
      [] f = "analyze_audio_with_gemini" -> "analyze_audio"
      [] OTHER -> f

\* The configuration entry that names the model each function calls.
ModelOf(f) ==
    CASE f = "generate_image_from_prompt_and_images" -> "GEMINI_IMAGE_GEN_MODEL"
      [] f = "rewriter" -> "REWRITER_MODEL_ID"
      [] f = "analyze_audio_with_gemini" -> "GEMINI_AUDIO_ANALYSIS_MODEL_ID"
      [] f \in { "get_facial_composite_profile",
                 "get_natural_language_description",
                 "generate_final_scene_prompt", "select_best_image",
                 "select_best_image_with_description", "final_image_critic",
                 "describe_images_and_look" }
           -> "CHARACTER_CONSISTENCY_GEMINI_MODEL"
      [] f = "generate_text" -> "model_name"
      [] OTHER -> "MODEL_ID"

\* Part.from_uri is called under its own try/except before the scope opens.
PreCallCanFail(f) == f = "analyze_audio_with_gemini"

(***************************************************************************)
(* Errors and responses.                                                   *)
(***************************************************************************)
\* Subclasses of Exception the remote call or the decoding can raise.
ExceptionTypes ==
    { "ServerError", "ConnectionError", "ValidationError", "JSONDecodeError",
      "AttributeError", "TypeError", "HTTPError", "GenerationError" }

\* Subclasses of BaseException that are not subclasses of Exception.
SystemExitingTypes == { "KeyboardInterrupt" }

RemoteErrorTypes == { "ServerError", "ConnectionError" } \cup SystemExitingTypes

RemoteErrors == [type : RemoteErrorTypes, msg : 1..NumMessages]

NoError == [type |-> "none", msg |-> 0]

IsException(e) == e.type \in ExceptionTypes

\* What response.text can be: None, "", text that is not JSON, JSON that does
\* not validate against the declared model, JSON that does.
ResponseTexts == { "None", "empty", "notjson", "nonconforming", "conforming" }

NoValue == [tag |-> "none", of |-> "-", execution_time |-> -1]

Value(tag, text, t) == [tag |-> tag, of |-> text, execution_time |-> t]

DecodeError(type) == [type |-> type, msg |-> 0]

Truthy(text) == text \notin { "None", "empty" }

(***************************************************************************)
(* What each function does with the response after the remote call         *)
(* returned: [raised, err, value].  d is the time the attempt took.        *)
(***************************************************************************)
DecodeOk(v) == [raised |-> FALSE, err |-> NoError, value |-> v]

DecodeFail(type) == [raised |-> TRUE, err |-> DecodeError(type), value |-> NoValue]

\* <Model>.model_validate_json(response.text)
ModelValidateJson(text) ==
    IF text = "conforming"
    THEN DecodeOk(Value("model", text, -1))
    ELSE DecodeFail("ValidationError")

\* analyze_audio_with_gemini: json.loads of a non-empty text, None otherwise.
AnalyzeAudioDecode(text) ==
    IF Truthy(text)
    THEN IF text = "notjson"
         THEN DecodeFail("JSONDecodeError")
         ELSE DecodeOk(Value("json", text, -1))
    ELSE DecodeOk(Value("None", text, -1))

\* response.text.strip()
StripDecode(text) ==
    IF text = "None"
    THEN DecodeFail("AttributeError")
    ELSE DecodeOk(Value("stripped", text, -1))

\* image_critique: the text, or the fixed fallback sentence.
ImageCritiqueDecode(text) ==
    IF Truthy(text)
    THEN DecodeOk(Value("text", text, -1))
    ELSE DecodeOk(Value("fallback", text, -1))

\* generate_text: return response.text, execution_time with execution_time = 0
GenerateTextExecutionTime(d) == 0

\* generate_image_from_prompt_and_images: end_time - start_time
GenerateImageExecutionTime(d) == d

Decode(f, text, d) ==
    CASE f \in PydanticFunctions -> ModelValidateJson(text)
      [] f = "analyze_audio_with_gemini" -> AnalyzeAudioDecode(text)
      [] f \in StripFunctions -> StripDecode(text)
      [] f = "image_critique" -> ImageCritiqueDecode(text)
      [] f = "rewriter" -> DecodeOk(Value("text", text, -1))
      [] f = "generate_text" ->
            DecodeOk(Value("text", text, GenerateTextExecutionTime(d)))
      [] f = "generate_image_from_prompt_and_images" ->
            DecodeOk(Value("media", text, GenerateImageExecutionTime(d)))

(***************************************************************************)
(* The observation scope.  track_model_call lives in common/analytics.py;  *)
(* it is a context manager whose exit records the call whether the body    *)
(* returned or raised.                                                     *)
(***************************************************************************)
TrackModelCall(model, task, n, raised) ==
    [model |-> model, task |-> task, attempt |-> n,
     status |-> IF raised THEN "error" ELSE "success"]

(***************************************************************************)
(* One execution of the body of function f (attempt n).                    *)
(*   prefail : Part.from_uri raised before the scope was opened            *)
(*   r       : what client.models.generate_content did                     *)
(*   d       : seconds the body took                                       *)
(***************************************************************************)
RemoteOutcomes ==
    [raised : {TRUE}, err : RemoteErrors, text : {"-"}]
    \cup [raised : {FALSE}, err : {NoError}, text : ResponseTexts]

PreOutcomes(f) == IF PreCallCanFail(f) THEN BOOLEAN ELSE {FALSE}

\* The functions whose config asks for response_mime_type="application/json".
JsonFunctions == PydanticFunctions \cup { "analyze_audio_with_gemini" }

ResponseMimeType(f) == IF f \in JsonFunctions THEN "application/json" ELSE ""

\* Mutant: a JSON config written without its response_schema.
ResponseSchemaForgotten(f) ==
    IF f = "evaluate_tts_audio" THEN ""
    ELSE IF f \in JsonFunctions THEN "schema" ELSE ""

\* The response_schema each config carries ("" = none).
ResponseSchema(f) ==
    CASE f = "extract_room_names_from_image" -> "RoomList"
      [] f = "analyze_audio_with_gemini" -> "schema_json"
      [] f = "get_facial_composite_profile" -> "FacialCompositeProfile"
      [] f = "generate_final_scene_prompt" -> "GeneratedPrompts"
      [] f = "select_best_image" -> "BestImage"
      [] f = "select_best_image_with_description" -> "BestImageAccuracy"
      [] f = "final_image_critic" -> "GeneratedImageAccuracyWrapper"
      [] f = "describe_images_and_look" -> "ArticleDescriptionWrapper"
      [] f = "generate_transformation_prompts" -> "TransformationPrompts"
      [] f \in { "evaluate_media_with_questions",
                 "evaluate_image_with_questions" } -> "EvaluationResult"
      [] f = "generate_critique_questions" -> "CritiqueQuestionList"
      [] f = "evaluate_tts_audio" -> "TTSEvaluation"
      [] OTHER -> ""

\* No config was built (the body failed before), or none is passed.
NoConfig == [response_mime_type |-> "", response_schema |-> ""]

\* types.GenerateContentConfig(...) as each function builds it on an attempt.
GenerationConfig(f) ==
    [response_mime_type |-> ResponseMimeType(f),
     response_schema |-> ResponseSchema(f)]

AttemptRecord(n, remote, raised, err, text, value, decode_failed, d, config) ==
    [n |-> n, remote |-> remote, raised |-> raised, err |-> err,
     text |-> text, value |-> value, decode_failed |-> decode_failed,
     duration |-> d, config |-> config]

Body(f, n, prefail, r, d) ==
    IF prefail
    THEN AttemptRecord(n, FALSE, TRUE, DecodeError("ValidationError"), "-",
                       NoValue, FALSE, d, NoConfig)
    ELSE IF r.raised
    THEN AttemptRecord(n, TRUE, TRUE, r.err, "-", NoValue, FALSE, d,
                       GenerationConfig(f))
    ELSE LET dec == Decode(f, r.text, d)
         IN  AttemptRecord(n, TRUE, dec.raised, dec.err, r.text, dec.value,
                           dec.raised, d, GenerationConfig(f))

\* The observations one execution of the body emits.
BodyObservations(f, a) ==
    IF a.remote
    THEN << TrackModelCall(ModelOf(f), TaskLabel(f), a.n,
                           a.raised /\ ~a.decode_failed) >>
    ELSE << >>

(***************************************************************************)
(* tenacity: @retry(wait=wait_exponential(multiplier=1, min=1, max=10),    *)
(*                  stop=stop_after_attempt(3),                            *)
(*                  retry=retry_if_exception_type(Exception), reraise=True)*)
(***************************************************************************)
RECURSIVE Pow(_, _)
Pow(b, e) == IF e = 0 THEN 1 ELSE b * Pow(b, e - 1)

Min(a, b) == IF a < b THEN a ELSE b
Max(a, b) == IF a > b THEN a ELSE b

\* Mutant: the backoff never grows.
WaitFixed(n) == WaitMin

WaitExponential(n) ==
    Max(Max(0, WaitMin), Min(WaitMultiplier * Pow(ExpBase, n - 1), WaitMax))

\* Mutant: the stop condition is off by one.
ShouldStopOffByOne(n) == n > StopAfterAttempt

ShouldStop(n) == n >= StopAfterAttempt

\* Mutant: only transport errors are retried.
RetryTransportOnly(e) == e.type \in { "ServerError", "ConnectionError" }

\* Mutant: only connection errors are retried.
RetryConnectionErrorOnly(e) == e.type = "ConnectionError"

RetryIfExceptionType(e) == IsException(e)

\* Mutant: reraise=False, tenacity raises its own RetryError.
ReraiseDisabled(last) == [type |-> "RetryError", msg |-> 0]

\* reraise=True: the last attempt's exception itself is raised.
Reraise(last) == last

\* What tenacity does after attempt a of a decorated function; an undecorated
\* function just returns or raises what its body did.
AfterAttempt(f, a) ==
    IF ~a.raised THEN "returned"
    ELSE IF ~Decorated(f) THEN "raised"
    ELSE IF ~RetryIfExceptionType(a.err) THEN "raised"
    ELSE IF ShouldStop(a.n) THEN "raised"
    ELSE "sleeping"

RaisedError(f, a) ==
    IF Decorated(f) /\ RetryIfExceptionType(a.err) THEN Reraise(a.err)
    ELSE a.err

NoOutcome == [kind |-> "none", value |-> NoValue, err |-> NoError]

OutcomeOf(f, a) ==
    CASE AfterAttempt(f, a) = "returned" ->
            [kind |-> "value", value |-> a.value, err |-> NoError]
      [] AfterAttempt(f, a) = "raised" ->
            [kind |-> "error", value |-> NoValue, err |-> RaisedError(f, a)]
      [] OTHER -> NoOutcome

(***************************************************************************)
(* Two invocations running at once, each with the state tenacity keeps for *)
(* one call.                                                               *)
(***************************************************************************)
Callers == { "c1", "c2" }

IdleCall ==
    [fn |-> "", pc |-> "idle", attempt_number |-> 1, attempts |-> << >>,
     waits |-> << >>, outcome |-> NoOutcome]

NoCalls == [p \in Callers |-> IdleCall]

(***************************************************************************)
(* The callers of the model-call functions: a wrapper function of          *)
(* gemini.py, and the event handlers of the page, of which two may be in   *)
(* progress at once.                                                       *)
(***************************************************************************)
NoWrapper ==
    [name |-> "", pc |-> "idle", original_prompt |-> << >>,
     outcome |-> NoOutcome]

IdleHandler ==
    [pc |-> "idle", base_prompt |-> << >>, input_gcs_uris |-> << >>]

NoHandlers == [h \in Callers |-> IdleHandler]

\* An event of the page: the handler it is delivered to, and e.key, e.value
\* or e.gcs_uri as the handler reads it.
Event(name, index, text) == [handler |-> name, index |-> index, text |-> text]

NoEvent == Event("", 0, << >>)

(***************************************************************************)
(* The Writers Workshop page state touched by _generate_text_and_save.     *)
(***************************************************************************)
\* prompt is a sequence of characters; previous_media_item_id "None" is None.
PageInit ==
    [is_generating |-> FALSE, generation_complete |-> FALSE,
     generation_time |-> 0, generated_text |-> "",
     show_error_dialog |-> FALSE, error_message |-> NoError,
     prompt |-> << >>, uploaded_media_gcs_uris |-> << >>,
     uploaded_media_display_urls |-> << >>, show_snackbar |-> FALSE,
     snackbar_message |-> "", previous_media_item_id |-> "None"]

Init ==
    /\ fn = ""
    /\ caller = "none"
    /\ pc = "idle"
    /\ attempt_number = 1
    /\ attempts = << >>
    /\ waits = << >>
    /\ obs = << >>
    /\ remote_calls = 0
    /\ outcome = NoOutcome
    /\ clock \in 0..MaxCallTime
    /\ start_time = 0
    /\ page = PageInit
    /\ page_pc = "idle"
    /\ args = [prompt |-> "", images |-> << >>]
    /\ request = << >>
    /\ builder = ""
    /\ calls = NoCalls
    /\ wrapper = NoWrapper
    /\ handlers = NoHandlers
    /\ event = NoEvent

\* A caller invokes model-call function f.
Invoke(f) ==
    /\ pc = "idle"
    /\ caller = "none"
    /\ page_pc = "idle"
    /\ fn' = f
    /\ caller' = "direct"
    /\ pc' = "attempting"
    /\ start_time' = clock
    /\ UNCHANGED <<attempt_number, attempts, waits, obs, remote_calls, outcome,
                   clock, page, page_pc>>
    /\ UNCHANGED buildVars
    /\ UNCHANGED hostVars
    /\ UNCHANGED calls

\* One execution of the function body, and what the envelope decides then.
Attempt ==
    /\ pc = "attempting"
    /\ \E d \in 1..MaxCallTime, prefail \in PreOutcomes(fn), r \in RemoteOutcomes :
          LET a == Body(fn, attempt_number, prefail, r, d)
          IN  /\ attempts' = Append(attempts, a)
              /\ obs' = obs \o BodyObservations(fn, a)
              /\ remote_calls' = remote_calls + (IF a.remote THEN 1 ELSE 0)
              /\ clock' = clock + d
              /\ pc' = AfterAttempt(fn, a)
              /\ outcome' = OutcomeOf(fn, a)
    /\ UNCHANGED <<fn, caller, attempt_number, waits, start_time, page, page_pc>>
    /\ UNCHANGED buildVars
    /\ UNCHANGED hostVars
    /\ UNCHANGED calls

\* tenacity sleeps wait_exponential seconds and starts the next attempt.
Sleep ==
    /\ pc = "sleeping"
    /\ waits' = Append(waits, WaitExponential(attempt_number))
    /\ clock' = clock + WaitExponential(attempt_number)
    /\ attempt_number' = attempt_number + 1
    /\ pc' = "attempting"
    /\ UNCHANGED <<fn, caller, attempts, obs, remote_calls, outcome, start_time,
                   page, page_pc>>
    /\ UNCHANGED buildVars
    /\ UNCHANGED hostVars
    /\ UNCHANGED calls

\* Mutant: the handler only prints the error.
ExceptHandlerPrintOnly(pg, ex) == pg

\* except Exception as ex: error_message = f"An error occurred: {ex}" ...
ExceptHandler(pg, ex) ==
    [pg EXCEPT !.error_message = ex, !.show_error_dialog = TRUE]

\* Mutant: the flags are reset on the success path only, not in a finally.
AfterGenerateTextNoFinally(pg, result) ==
    IF result.kind = "value"
    THEN [pg EXCEPT !.generation_time = result.value.execution_time,
                    !.generated_text = result.value.of,
                    !.is_generating = FALSE,
                    !.generation_complete = TRUE]
    ELSE IF IsException(result.err)
    THEN ExceptHandler(pg, result.err)
    ELSE pg

\* finally: state.is_generating = False; state.generation_complete = True
Finally(pg) ==
    [pg EXCEPT !.is_generating = FALSE, !.generation_complete = TRUE]

\* _generate_text_and_save after generate_text returned or raised: the try
\* block's assignments or the except clause, then the finally block.
AfterGenerateText(pg, result) ==
    IF result.kind = "value"
    THEN Finally([pg EXCEPT !.generation_time = result.value.execution_time,
                            !.generated_text = result.value.of])
    ELSE IF IsException(result.err)
    THEN Finally(ExceptHandler(pg, result.err))
    ELSE Finally(pg)

\* on_generate_text_click -> _generate_text_and_save, up to its first yield.
GenerateTextAndSaveStart ==
    /\ page_pc = "idle"
    /\ caller = "none"
    /\ page' = [page EXCEPT !.is_generating = TRUE,
                            !.generation_complete = FALSE]
    /\ page_pc' = "generating"
    /\ UNCHANGED <<fn, caller, pc, attempt_number, attempts, waits, obs,
                   remote_calls, outcome, clock, start_time>>
    /\ UNCHANGED buildVars
    /\ UNCHANGED hostVars
    /\ UNCHANGED calls

\* _generate_text_and_save opens its scope and calls generate_text.
GenerateTextAndSaveCall ==
    /\ page_pc = "generating"
    /\ caller = "none"
    /\ pc = "idle"
    /\ fn' = "generate_text"
    /\ caller' = "page"
    /\ pc' = "attempting"
    /\ start_time' = clock
    /\ UNCHANGED <<attempt_number, attempts, waits, obs, remote_calls, outcome,
                   clock, page, page_pc>>
    /\ UNCHANGED buildVars
    /\ UNCHANGED hostVars
    /\ UNCHANGED calls

\* The rest of _generate_text_and_save: the scope exits, then try / except
\* Exception / finally.
GenerateTextAndSaveEnd ==
    /\ page_pc = "generating"
    /\ caller = "page"
    /\ pc \in {"returned", "raised"}
    /\ obs' = Append(obs, TrackModelCall("GEMINI_WRITERS_WORKSHOP_MODEL_ID", "",
                                         0, pc = "raised"))
    /\ page' = AfterGenerateText(page, outcome)
    /\ page_pc' = IF pc = "raised" /\ ~IsException(outcome.err)
                  THEN "escaped" ELSE "done"
    /\ UNCHANGED <<fn, caller, pc, attempt_number, attempts, waits,
                   remote_calls, outcome, clock, start_time>>
    /\ UNCHANGED buildVars
    /\ UNCHANGED hostVars
    /\ UNCHANGED calls

Next ==
    \/ \E f \in ModelCallFunctions : Invoke(f)
    \/ Attempt
    \/ Sleep
    \/ GenerateTextAndSaveStart
    \/ GenerateTextAndSaveCall
    \/ GenerateTextAndSaveEnd

Spec == Init /\ [][Next]_vars

(***************************************************************************)
(* Request builders.  A locator is a sequence of characters.               *)
(***************************************************************************)
UpperCase ==
    << "A", "B", "C", "D", "E", "F", "G", "H", "I", "J", "K", "L", "M",
       "N", "O", "P", "Q", "R", "S", "T", "U", "V", "W", "X", "Y", "Z" >>

LowerCase ==
    << "a", "b", "c", "d", "e", "f", "g", "h", "i", "j", "k", "l", "m",
       "n", "o", "p", "q", "r", "s", "t", "u", "v", "w", "x", "y", "z" >>

\* Mutant: the comparison is case-sensitive.
LowerCharIdentity(c) == c

\* str.lower(), one character
LowerChar(c) ==
    IF \E i \in 1..26 : UpperCase[i] = c
    THEN LowerCase[CHOOSE i \in 1..26 : UpperCase[i] = c]
    ELSE c

\* str.lower()
Lower(s) == [i \in 1..Len(s) |-> LowerChar(s[i])]

\* str.endswith(suffix)
EndsWith(s, suffix) ==
    /\ Len(s) >= Len(suffix)
    /\ SubSeq(s, Len(s) - Len(suffix) + 1, Len(s)) = suffix

VideoExtensions ==
    { << ".", "m", "p", "4" >>, << ".", "m", "o", "v" >>,
      << ".", "a", "v", "i" >>, << ".", "m", "k", "v" >>,
      << ".", "w", "e", "b", "m" >> }

AudioExtensions ==
    { << ".", "w", "a", "v" >>, << ".", "m", "p", "3" >>,
      << ".", "f", "l", "a", "c" >> }

ImageExtensions ==
    { << ".", "p", "n", "g" >>, << ".", "j", "p", "g" >>,
      << ".", "j", "p", "e", "g" >>, << ".", "w", "e", "b", "p" >>,
      << ".", "g", "i", "f" >> }

PdfExtension == << ".", "p", "d", "f" >>

\* The mime type generate_text gives an attachment.
MimeType(image_uri) ==
    IF \E ext \in VideoExtensions : EndsWith(Lower(image_uri), ext)
    THEN "video/mp4"
    ELSE IF \E ext \in AudioExtensions : EndsWith(Lower(image_uri), ext)
    THEN "audio/wav"
    ELSE IF \E ext \in ImageExtensions : EndsWith(Lower(image_uri), ext)
    THEN "image/png"
    ELSE IF EndsWith(Lower(image_uri), PdfExtension)
    THEN "application/pdf"
    ELSE "application/octet-stream"

\* types.Part.from_text(text=...) or a plain string in the contents list.
\* template names the fixed text the function wraps around its argument.
TextSegment(template, prompt) ==
    [kind |-> "text", template |-> template, text |-> prompt,
     uri |-> << >>, mime |-> ""]

\* types.Part.from_uri(file_uri=..., mime_type=...)
UriSegment(file_uri, mime_type) ==
    [kind |-> "uri", template |-> "", text |-> "",
     uri |-> file_uri, mime |-> mime_type]

\* Builders whose attachments are a list: for uri in uris: parts.append(...)
ListBuilders ==
    { "generate_text", "generate_image_from_prompt_and_images",
      "image_critique", "generate_transformation_prompts" }

\* Builders that take exactly one attachment.
SingleBuilders ==
    { "extract_room_names_from_image", "describe_image", "describe_video",
      "evaluate_media_with_questions", "evaluate_image_with_questions",
      "evaluate_tts_audio", "analyze_audio_with_gemini" }

\* The mime type builder b declares for attachment uri.
DeclaredMime(b, uri) ==
    CASE b = "generate_text" -> MimeType(uri)
      [] b \in { "describe_video" } -> "video/mp4"
      [] b \in { "evaluate_tts_audio", "analyze_audio_with_gemini" } -> "audio/wav"
      [] b = "evaluate_media_with_questions" -> "mime_type"
      [] OTHER -> "image/png"

\* The text instruction of builder b.
Instruction(b, prompt) ==
    CASE b \in { "generate_text", "generate_image_from_prompt_and_images" } ->
            TextSegment("", prompt)
      [] b = "image_critique" -> TextSegment("MAGAZINE_EDITOR_PROMPT", prompt)
      [] b = "analyze_audio_with_gemini" ->
            TextSegment("text_prompt_for_analysis", prompt)
      [] b = "evaluate_tts_audio" -> TextSegment("GEMINI_TTS_EVALUATOR", prompt)
      [] b \in { "evaluate_media_with_questions",
                 "evaluate_image_with_questions" } ->
            TextSegment("questions", prompt)
      [] OTHER -> TextSegment("prompt_text", "")

\* Mutant: the attachments are appended in reverse order.
AttachmentsReversed(b, images) ==
    [i \in 1..Len(images) |->
        UriSegment(images[Len(images) + 1 - i],
                   DeclaredMime(b, images[Len(images) + 1 - i]))]

\* The loop that appends one Part.from_uri per attachment.
Attachments(b, images) ==
    [i \in 1..Len(images) |-> UriSegment(images[i], DeclaredMime(b, images[i]))]

\* The ordered segments of the request builder b sends.
BuildRequest(b, prompt, images) ==
    IF b = "analyze_audio_with_gemini"
    THEN Attachments(b, images) \o << Instruction(b, prompt) >>
    ELSE << Instruction(b, prompt) >> \o Attachments(b, images)

\* The locators and prompts the builders are applied to.
Stem == << "f" >>

Tails ==
    VideoExtensions \cup AudioExtensions \cup ImageExtensions
    \cup { PdfExtension,
           << ".", "M", "o", "V" >>, << ".", "J", "P", "E", "G" >>,
           << ".", "P", "D", "F" >>, << ".", "t", "x", "t" >>,
           << "m", "p", "4" >>,
           << ".", "p", "d", "f", ".", "p", "n", "g" >>,
           << ".", "p", "n", "g", "." >> }

Locators == { Stem \o t : t \in Tails } \cup { << >> }

Prompts == { "p1", "p2" }

SeqsUpTo(S, n) == UNION { [1..k -> S] : k \in 0..n }

InitBuild ==
    /\ fn = ""
    /\ caller = "none"
    /\ pc = "idle"
    /\ attempt_number = 1
    /\ attempts = << >>
    /\ waits = << >>
    /\ obs = << >>
    /\ remote_calls = 0
    /\ outcome = NoOutcome
    /\ clock = 0
    /\ start_time = 0
    /\ page = PageInit
    /\ page_pc = "idle"
    /\ args \in [prompt : Prompts, images : SeqsUpTo(Locators, MaxImages)]
    /\ request = << >>
    /\ builder = ""
    /\ calls = NoCalls
    /\ wrapper = NoWrapper
    /\ handlers = NoHandlers
    /\ event = NoEvent

\* A builder that takes a list of attachments builds its request.
BuildList(b) ==
    /\ builder = ""
    /\ b \in ListBuilders
    /\ builder' = b
    /\ request' = BuildRequest(b, args.prompt, args.images)
    /\ UNCHANGED args
    /\ UNCHANGED hostVars
    /\ UNCHANGED envVars
    /\ UNCHANGED calls

\* A builder that takes one attachment builds its request.
BuildSingle(b) ==
    /\ builder = ""
    /\ b \in SingleBuilders
    /\ Len(args.images) = 1
    /\ builder' = b
    /\ request' = BuildRequest(b, args.prompt, args.images)
    /\ UNCHANGED args
    /\ UNCHANGED hostVars
    /\ UNCHANGED envVars
    /\ UNCHANGED calls

NextBuild ==
    \/ \E b \in ListBuilders : BuildList(b)
    \/ \E b \in SingleBuilders : BuildSingle(b)

SpecBuild == InitBuild /\ [][NextBuild]_vars

(***************************************************************************)
(* Responses in detail, and the decoders applied to them.                  *)
(*                                                                         *)
(* A text is None or a str.  A str is either a sequence of characters that *)
(* is not valid JSON, or the JSON serialisation of a document (form        *)
(* "json"); json.loads and model_validate_json are library code, so the    *)
(* serialisation is not spelled out character by character.                *)
(***************************************************************************)
MaxParts == 4        \* parts in the first candidate of a media response
MaxListLen == 6      \* items of a length-bounded JSON array
MaxRooms == 2        \* items of the rooms array

Whitespace == { " ", "\n" }

NoneText == [form |-> "None"]

Str(chars) == [form |-> "str", chars |-> chars]

JsonText(doc) == [form |-> "json", doc |-> doc]

\* Python truthiness of a text: None and "" are falsy.
TruthyText(t) == t.form = "json" \/ (t.form = "str" /\ t.chars # << >>)

RECURSIVE LStrip(_)
LStrip(s) ==
    IF s # << >> /\ Head(s) \in Whitespace THEN LStrip(Tail(s)) ELSE s

RECURSIVE RStrip(_)
RStrip(s) ==
    IF s # << >> /\ s[Len(s)] \in Whitespace
    THEN RStrip(SubSeq(s, 1, Len(s) - 1))
    ELSE s

\* str.strip()
Strip(s) == RStrip(LStrip(s))

\* A types.Part of a response: its text and its inline_data.
NoBlob == [present |-> FALSE]

\* mime_type "None" stands for an inline_data whose mime_type is None.
Blob(mime_type, data) ==
    [present |-> TRUE, mime_type |-> mime_type, data |-> data]

Part(text, inline_data) == [text |-> text, inline_data |-> inline_data]

\* A candidate with no content, or with no parts, has parts = << >>.
Candidate(parts, grounding_metadata) ==
    [parts |-> parts, grounding_metadata |-> grounding_metadata]

Response(text, candidates) == [text |-> text, candidates |-> candidates]

\* response.parts: the parts of the first candidate.
ResponseParts(response) ==
    IF response.candidates # << >> THEN response.candidates[1].parts ELSE << >>

(***************************************************************************)
(* generate_image_from_prompt_and_images: the loop over the parts.         *)
(***************************************************************************)
\* Mutant: the parts of every candidate are decoded.
DecodedPartsOfAllCandidates(response) ==
    IF response.candidates = << >> THEN << >>
    ELSE IF Len(response.candidates) = 1 THEN response.candidates[1].parts
    ELSE response.candidates[1].parts \o response.candidates[2].parts

\* if response.candidates: candidate = response.candidates[0] ...
DecodedParts(response) ==
    IF response.candidates # << >> THEN response.candidates[1].parts ELSE << >>

\* Mutant: the declared mime type is passed on as it is.
InlineMimeTypeAsDeclared(blob) == blob.mime_type

\* mime_type = "image/png" unless inline_data.mime_type is set and non-empty.
InlineMimeType(blob) ==
    IF blob.mime_type \notin { "None", "" } THEN blob.mime_type ELSE "image/png"

\* Mutant: the caption buffer is never reset.
BufferAfterMediaKept(buffer) == buffer

\* current_text_buffer = "" after a media part.
BufferAfterMedia(buffer) == << >>

\* The arguments of one store_to_gcs call; i is the part's enumerate index.
StoreToGcsCall(i, blob) ==
    [file_index |-> i, mime_type |-> InlineMimeType(blob),
     contents |-> blob.data]

\* store_to_gcs lives in common/storage.py; the URI it returns names the
\* file it was asked to write.
StoreToGcs(call) == [uri_of_file |-> call.file_index]

NoMedia ==
    [gcs_uris |-> << >>, captions |-> << >>, buffer |-> << >>,
     stored |-> << >>]

\* One iteration of the loop, for the part with enumerate index i.
DecodePart(st, part, i) ==
    LET buffer == IF TruthyText(part.text)
                  THEN st.buffer \o part.text.chars
                  ELSE st.buffer
    IN  IF part.inline_data.present
        THEN LET call == StoreToGcsCall(i, part.inline_data)
             IN  [gcs_uris |-> Append(st.gcs_uris, StoreToGcs(call)),
                  captions |-> Append(st.captions, Strip(buffer)),
                  buffer |-> BufferAfterMedia(buffer),
                  stored |-> Append(st.stored, call)]
        ELSE [st EXCEPT !.buffer = buffer]

RECURSIVE DecodeParts(_, _, _)
DecodeParts(parts, k, st) ==
    IF k > Len(parts) THEN st
    ELSE DecodeParts(parts, k + 1, DecodePart(st, parts[k], k - 1))

\* grounding_metadata.model_dump(), None when absent or when the dump fails.
GroundingInfo(response) ==
    IF response.candidates = << >> THEN "None"
    ELSE IF response.candidates[1].grounding_metadata = "present" THEN "dumped"
    ELSE "None"

DecodedOk(v, stored) ==
    [raised |-> FALSE, err |-> NoError, value |-> v, stored |-> stored]

DecodedFail(err) ==
    [raised |-> TRUE, err |-> err, value |-> NoValue, stored |-> << >>]

\* Mutant: text left in the buffer after the loop becomes a last caption.
ReturnedCaptionsWithRemainder(st) ==
    IF st.buffer # << >> THEN Append(st.captions, Strip(st.buffer))
    ELSE st.captions

\* return gcs_uris, execution_time, captions, grounding_info: what is left
\* in current_text_buffer is not returned.
ReturnedCaptions(st) == st.captions

GenerateImageDecode(response, d) ==
    LET st == DecodeParts(DecodedParts(response), 1, NoMedia)
    IN  DecodedOk([tag |-> "media", gcs_uris |-> st.gcs_uris,
                   captions |-> ReturnedCaptions(st),
                   grounding_info |-> GroundingInfo(response),
                   execution_time |-> GenerateImageExecutionTime(d)],
                  st.stored)

(***************************************************************************)
(* The free-text decoders.                                                 *)
(***************************************************************************)
TextValue(text, t) == [tag |-> "text", text |-> text, execution_time |-> t]

NoneValue == [tag |-> "None"]

CritiqueFallback == Str(<< "Critique could not be generated" >>)

\* return response.text.strip()
StripTextDecode(response) ==
    IF response.text.form = "None"
    THEN DecodedFail(DecodeError("AttributeError"))
    ELSE DecodedOk(TextValue(Str(Strip(response.text.chars)), -1), << >>)

\* image_critique: response.text, else the first part's text, else the
\* fixed sentence.
ImageCritiqueTextDecode(response) ==
    IF TruthyText(response.text)
    THEN DecodedOk(TextValue(response.text, -1), << >>)
    ELSE IF /\ response.candidates # << >>
            /\ response.candidates[1].parts # << >>
            /\ TruthyText(response.candidates[1].parts[1].text)
    THEN DecodedOk(TextValue(response.candidates[1].parts[1].text, -1), << >>)
    ELSE DecodedOk(TextValue(CritiqueFallback, -1), << >>)

(***************************************************************************)
(* The JSON decoders.                                                      *)
(***************************************************************************)
\* json.loads(text)
JsonLoads(text) ==
    IF text.form = "json"
    THEN [ok |-> TRUE, doc |-> text.doc]
    ELSE [ok |-> FALSE, doc |-> << >>]

\* "".join(part.text for part in response.parts if hasattr(part, "text")),
\* for a response of at most one part.
JoinPartTexts(parts) == IF parts = << >> THEN Str(<< >>) ELSE parts[1].text

\* analyze_audio_with_gemini, after the remote call.
AnalyzeAudioTextDecode(response) ==
    IF TruthyText(response.text)
    THEN IF JsonLoads(response.text).ok
         THEN DecodedOk([tag |-> "dict", of |-> JsonLoads(response.text).doc],
                        << >>)
         ELSE DecodedFail(DecodeError("JSONDecodeError"))
    ELSE IF ResponseParts(response) # << >>
    THEN IF \E k \in 1..Len(ResponseParts(response)) :
                ResponseParts(response)[k].text.form = "None"
         THEN DecodedFail(DecodeError("TypeError"))
         ELSE LET joined == JoinPartTexts(ResponseParts(response))
              IN  IF ~TruthyText(joined) THEN DecodedOk(NoneValue, << >>)
                  ELSE IF JsonLoads(joined).ok
                  THEN DecodedOk([tag |-> "dict", of |-> JsonLoads(joined).doc],
                                 << >>)
                  ELSE DecodedFail(DecodeError("JSONDecodeError"))
    ELSE DecodedOk(NoneValue, << >>)

\* The pydantic models declared in gemini.py: the list field of each model,
\* the fields its items require, and the length bounds of the list.
ListField(model) ==
    CASE model = "RoomList" -> "rooms"
      [] model = "TransformationPrompts" -> "transformations"
      [] model = "CritiqueQuestionList" -> "questions"

ItemFields(model) ==
    CASE model = "RoomList" -> { "room_name" }
      [] model = "TransformationPrompts" -> { "title", "prompt" }
      [] model = "CritiqueQuestionList" -> { "question" }

MinLength(model) ==
    CASE model = "TransformationPrompts" -> 3
      [] model = "CritiqueQuestionList" -> 5
      [] OTHER -> 0

\* Mutant: max_length is one too large.
MaxLengthOffByOne(model) ==
    CASE model = "TransformationPrompts" -> 4
      [] model = "CritiqueQuestionList" -> 6
      [] OTHER -> MaxListLen + 1

\* RoomList declares no bounds: any length the model reaches passes.
MaxLength(model) ==
    CASE model = "TransformationPrompts" -> 3
      [] model = "CritiqueQuestionList" -> 5
      [] OTHER -> MaxListLen + 1

\* A location a ValidationError reports: field, item index, field of the item.
Loc(field, index, subfield) ==
    [field |-> field, index |-> index, subfield |-> subfield]

ValidationErrorAt(locs) == [type |-> "ValidationError", msg |-> 0, locs |-> locs]

\* too_short / too_long, reported at the list field.
LengthLocs(model, items) ==
    IF Len(items) < MinLength(model) \/ Len(items) > MaxLength(model)
    THEN { Loc(ListField(model), -1, "") }
    ELSE { }

\* missing, reported at the field of the item that lacks it.
ItemLocs(model, items) ==
    { Loc(ListField(model), q[1] - 1, q[2]) :
         q \in { p \in (1..Len(items)) \X ItemFields(model) :
                    p[2] \notin DOMAIN items[p[1]] } }

\* The locations at which document doc fails model's validation.
ValidationLocs(model, doc) ==
    IF ListField(model) \notin DOMAIN doc
    THEN { Loc(ListField(model), -1, "") }
    ELSE LengthLocs(model, doc[ListField(model)])
         \cup ItemLocs(model, doc[ListField(model)])

\* An item as the model object holds it: the declared fields only.
ModelItem(model, item) == [f \in ItemFields(model) |-> item[f]]

\* <Model>.model_validate_json(text): the validated list, or the error.
ValidateJson(model, text) ==
    IF ~JsonLoads(text).ok
    THEN [ok |-> FALSE, err |-> ValidationErrorAt({ Loc("", -1, "") }),
          items |-> << >>]
    ELSE LET doc == JsonLoads(text).doc
             locs == ValidationLocs(model, doc)
         IN  IF locs # { }
             THEN [ok |-> FALSE, err |-> ValidationErrorAt(locs), items |-> << >>]
             ELSE [ok |-> TRUE, err |-> NoError,
                   items |-> [k \in 1..Len(doc[ListField(model)]) |->
                                 ModelItem(model, doc[ListField(model)][k])]]

\* Mutant: each name is listed once.
RoomNamesOnce(rooms) ==
    IF Len(rooms) = 2 /\ rooms[1].room_name = rooms[2].room_name
    THEN << rooms[1].room_name >>
    ELSE [k \in 1..Len(rooms) |-> rooms[k].room_name]

\* [room.room_name for room in room_list_obj.rooms]
RoomNames(rooms) == [k \in 1..Len(rooms) |-> rooms[k].room_name]

\* [q.question for q in question_list.questions]
Questions(questions) == [k \in 1..Len(questions) |-> questions[k].question]

ListValue(items) == [tag |-> "list", items |-> items]

PydanticListDecode(f, response) ==
    LET v == ValidateJson(ResponseSchema(f), response.text)
    IN  IF ~v.ok THEN DecodedFail(v.err)
        ELSE CASE f = "extract_room_names_from_image" ->
                     DecodedOk(ListValue(RoomNames(v.items)), << >>)
               [] f = "generate_transformation_prompts" ->
                     DecodedOk(ListValue(v.items), << >>)
               [] f = "generate_critique_questions" ->
                     DecodedOk(ListValue(Questions(v.items)), << >>)

(***************************************************************************)
(* What each function does with a response in detail:                      *)
(* [raised, err, value, stored], stored being its store_to_gcs calls.      *)
(***************************************************************************)
ListFunctions ==
    { "extract_room_names_from_image", "generate_transformation_prompts",
      "generate_critique_questions" }

\* The functions whose schema is declared in gemini.py itself.
SchemaFunctions == ListFunctions \cup { "analyze_audio_with_gemini" }

TextFunctions == StripFunctions \cup RawTextFunctions \cup { "image_critique" }

MediaFunctions == { "generate_image_from_prompt_and_images" }

DecodeFunctions == SchemaFunctions \cup TextFunctions \cup MediaFunctions

DecodeResponse(f, response, d) ==
    CASE f \in MediaFunctions -> GenerateImageDecode(response, d)
      [] f \in ListFunctions -> PydanticListDecode(f, response)
      [] f = "analyze_audio_with_gemini" -> AnalyzeAudioTextDecode(response)
      [] f \in StripFunctions -> StripTextDecode(response)
      [] f = "image_critique" -> ImageCritiqueTextDecode(response)
      [] f = "rewriter" -> DecodedOk(TextValue(response.text, -1), << >>)
      [] f = "generate_text" ->
            DecodedOk(TextValue(response.text, GenerateTextExecutionTime(d)),
                      << >>)

(***************************************************************************)
(* The responses the remote service is taken to give each function.        *)
(***************************************************************************)
TextPayloads ==
    { NoneText, Str(<< >>), Str(<< " " >>), Str(<< "A" >>),
      Str(<< " ", "B", "\n" >>) }

PartAlphabet ==
    { Part(Str(<< "A" >>), NoBlob),
      Part(Str(<< "B", " " >>), NoBlob),
      Part(Str(<< >>), NoBlob),
      Part(NoneText, NoBlob),
      Part(NoneText, Blob("None", "d1")),
      Part(NoneText, Blob("", "d2")),
      Part(NoneText, Blob("image/jpeg", "d1")),
      Part(Str(<< "A" >>), Blob("image/jpeg", "d2")) }

SecondCandidate ==
    Candidate(<< Part(NoneText, Blob("image/jpeg", "d2")) >>, "None")

MediaResponses ==
    { Response(NoneText, << >>) }
    \cup { Response(NoneText, << Candidate(p, g) >>) :
              p \in SeqsUpTo(PartAlphabet, MaxParts),
              g \in { "None", "present", "undumpable" } }
    \cup { Response(NoneText, << Candidate(p, "None"), SecondCandidate >>) :
              p \in SeqsUpTo(PartAlphabet, 1) }

\* The candidates a text response may carry besides its text.
TextCandidates ==
    { << >>,
      << Candidate(<< >>, "None") >>,
      << Candidate(<< Part(Str(<< "A" >>), NoBlob) >>, "None") >> }

TextResponses == { Response(t, c) : t \in TextPayloads, c \in TextCandidates }

RoomItems ==
    { [room_name |-> "Kitchen"],
      [room_name |-> "Bath", area |-> "12"],
      [area |-> "12"] }

RoomDocs ==
    { [rooms |-> r] : r \in SeqsUpTo(RoomItems, MaxRooms) }
    \cup { [floor |-> "1"] }

Fill(item, n) == [k \in 1..n |-> item]

TransformationDocs ==
    { [transformations |-> Fill([title |-> "t", prompt |-> "p"], n)] :
         n \in 0..MaxListLen }
    \cup { [transformations |-> << [title |-> "t", prompt |-> "p"],
                                   [title |-> "t"],
                                   [title |-> "t", prompt |-> "p"] >>],
           [other |-> "x"] }

QuestionDocs ==
    { [questions |-> Fill([question |-> "q"], n)] : n \in 0..MaxListLen }
    \cup { [other |-> "x"] }

AudioKeys == { "audio-analysis", "genre-quality", "prompt-alignment" }

AudioDocs ==
    { [k \in S |-> IF k = "genre-quality" THEN g ELSE << "x" >>] :
         S \in SUBSET AudioKeys, g \in { << >>, << "rock" >> } }

Docs(f) ==
    CASE f = "extract_room_names_from_image" -> RoomDocs
      [] f = "generate_transformation_prompts" -> TransformationDocs
      [] f = "generate_critique_questions" -> QuestionDocs
      [] f = "analyze_audio_with_gemini" -> AudioDocs

JsonPayloads(f) ==
    { NoneText, Str(<< >>), Str(<< "A" >>) } \cup { JsonText(doc) : doc \in Docs(f) }

AudioCandidates ==
    { << >>,
      << Candidate(<< Part(NoneText, NoBlob) >>, "None") >>,
      << Candidate(<< Part(Str(<< "A" >>), NoBlob) >>, "None") >>,
      << Candidate(<< Part(JsonText([k \in AudioKeys |-> << "x" >>]), NoBlob) >>,
                   "None") >> }

Responses(f) ==
    CASE f \in MediaFunctions -> MediaResponses
      [] f \in TextFunctions -> TextResponses
      [] f \in ListFunctions ->
            { Response(t, << >>) : t \in JsonPayloads(f) }
      [] f = "analyze_audio_with_gemini" ->
            { Response(t, c) : t \in JsonPayloads(f), c \in AudioCandidates }

NoResponse == Response(NoneText, << >>)

DetailedRemoteOutcomes(f) ==
    [raised : {TRUE}, err : { e \in RemoteErrors : e.msg = 1 },
     response : { NoResponse }]
    \cup [raised : {FALSE}, err : {NoError}, response : Responses(f)]

DetailedAttemptRecord(n, remote, responded, raised, err, response, value, decode_failed, d, config, stored) ==
    [n |-> n, remote |-> remote, responded |-> responded, raised |-> raised,
     err |-> err, response |-> response, value |-> value,
     decode_failed |-> decode_failed, duration |-> d, config |-> config,
     stored |-> stored]

\* One execution of the body of f, with the response in detail.
DetailedBody(f, n, prefail, r, d) ==
    IF prefail
    THEN DetailedAttemptRecord(n, FALSE, FALSE, TRUE,
                               DecodeError("ValidationError"), NoResponse,
                               NoValue, FALSE, d, NoConfig, << >>)
    ELSE IF r.raised
    THEN DetailedAttemptRecord(n, TRUE, FALSE, TRUE, r.err, NoResponse, NoValue,
                               FALSE, d, GenerationConfig(f), << >>)
    ELSE LET dec == DecodeResponse(f, r.response, d)
         IN  DetailedAttemptRecord(n, TRUE, TRUE, dec.raised, dec.err,
                                   r.response, dec.value, dec.raised, d,
                                   GenerationConfig(f), dec.stored)

InitDecode ==
    /\ fn = ""
    /\ caller = "none"
    /\ pc = "idle"
    /\ attempt_number = 1
    /\ attempts = << >>
    /\ waits = << >>
    /\ obs = << >>
    /\ remote_calls = 0
    /\ outcome = NoOutcome
    /\ clock = 0
    /\ start_time = 0
    /\ page = PageInit
    /\ page_pc = "idle"
    /\ args = [prompt |-> "", images |-> << >>]
    /\ request = << >>
    /\ builder = ""
    /\ calls = NoCalls
    /\ wrapper = NoWrapper
    /\ handlers = NoHandlers
    /\ event = NoEvent

\* One execution of the function body on a response in detail, and what the
\* envelope decides then.
AttemptDetailed ==
    /\ pc = "attempting"
    /\ \E prefail \in PreOutcomes(fn), r \in DetailedRemoteOutcomes(fn) :
          LET a == DetailedBody(fn, attempt_number, prefail, r, MaxCallTime)
          IN  /\ attempts' = Append(attempts, a)
              /\ obs' = obs \o BodyObservations(fn, a)
              /\ remote_calls' = remote_calls + (IF a.remote THEN 1 ELSE 0)
              /\ clock' = clock + MaxCallTime
              /\ pc' = AfterAttempt(fn, a)
              /\ outcome' = OutcomeOf(fn, a)
    /\ UNCHANGED <<fn, caller, attempt_number, waits, start_time, page, page_pc>>
    /\ UNCHANGED buildVars
    /\ UNCHANGED hostVars
    /\ UNCHANGED calls

NextDecode ==
    \/ \E f \in DecodeFunctions : Invoke(f)
    \/ AttemptDetailed
    \/ Sleep

SpecDecode == InitDecode /\ [][NextDecode]_vars

(***************************************************************************)
(* Two invocations of decorated functions running at once.  The functions  *)
(* share the module-level client and the observation sink and nothing      *)
(* else; each call of a decorated function gets its own retry state.       *)
(***************************************************************************)
ConcurrentFunctions == { "generate_text", "describe_image" }

\* What the remote service is taken to do for an invocation running beside
\* another.
ConcurrentRemoteOutcomes ==
    { r \in RemoteOutcomes :
         /\ r.raised => ( r.err.msg = 1
                          /\ r.err.type \in { "ServerError", "KeyboardInterrupt" } )
         /\ ~r.raised => r.text \in { "None", "conforming" } }

\* Mutant: the attempt counter lives on the decorator, shared by all calls.
AttemptNumberShared(cs, p) ==
    1 + Len(cs["c1"].attempts) + Len(cs["c2"].attempts)

\* retry_state.attempt_number of invocation p: the state of its own call.
AttemptNumberOf(cs, p) == cs[p].attempt_number

\* Caller p invokes decorated function f.
InvokeConcurrently(p, f) ==
    /\ calls[p].pc = "idle"
    /\ calls' = [calls EXCEPT ![p].fn = f, ![p].pc = "attempting"]
    /\ UNCHANGED envVars
    /\ UNCHANGED buildVars
    /\ UNCHANGED hostVars

\* One execution of the function body for caller p, and what the envelope
\* decides then.
AttemptConcurrently(p) ==
    /\ calls[p].pc = "attempting"
    /\ \E r \in ConcurrentRemoteOutcomes :
          LET a == Body(calls[p].fn, AttemptNumberOf(calls, p), FALSE, r,
                        MaxCallTime)
          IN  /\ calls' = [calls EXCEPT
                              ![p].attempts = Append(@, a),
                              ![p].pc = AfterAttempt(calls[p].fn, a),
                              ![p].outcome = OutcomeOf(calls[p].fn, a)]
              /\ obs' = obs \o BodyObservations(calls[p].fn, a)
              /\ remote_calls' = remote_calls + 1
    /\ UNCHANGED <<fn, caller, pc, attempt_number, attempts, waits, outcome,
                   clock, start_time, page, page_pc>>
    /\ UNCHANGED buildVars
    /\ UNCHANGED hostVars

\* tenacity sleeps in caller p's thread and starts p's next attempt.
SleepConcurrently(p) ==
    /\ calls[p].pc = "sleeping"
    /\ calls' = [calls EXCEPT
                    ![p].waits = Append(@, WaitExponential(calls[p].attempt_number)),
                    ![p].attempt_number = @ + 1,
                    ![p].pc = "attempting"]
    /\ UNCHANGED envVars
    /\ UNCHANGED buildVars
    /\ UNCHANGED hostVars

NextConc ==
    \/ \E p \in Callers, f \in ConcurrentFunctions : InvokeConcurrently(p, f)
    \/ \E p \in Callers : AttemptConcurrently(p)
    \/ \E p \in Callers : SleepConcurrently(p)

SpecConc == InitDecode /\ [][NextConc]_vars

(***************************************************************************)
(* The wrappers of gemini.py: rewrite_prompt_with_gemini around rewriter,  *)
(* generate_compliment around image_critique.                              *)
(***************************************************************************)
Wrappers == { "rewrite_prompt_with_gemini", "generate_compliment" }

Wrapped(w) ==
    IF w = "rewrite_prompt_with_gemini" THEN "rewriter" ELSE "image_critique"

\* The prompts handed to a wrapper, as sequences of characters.
OriginalPrompts == { << >>, << "p" >> }

Returns(v) == [kind |-> "value", value |-> v, err |-> NoError]

Raises(e) == [kind |-> "error", value |-> NoValue, err |-> e]

\* Mutant: the rewriter's text is returned whatever it is.
RewritePromptNoFallback(original_prompt, inner) ==
    IF inner.kind = "error" THEN Raises(inner.err)
    ELSE Returns(TextValue(inner.value.text, -1))

\* rewrite_prompt_with_gemini, given what rewriter(original_prompt,
\* REWRITER_PROMPT) did.
RewritePromptWithGemini(original_prompt, inner) ==
    IF inner.kind = "error" THEN Raises(inner.err)
    ELSE IF ~TruthyText(inner.value.text)
    THEN Returns(TextValue(Str(original_prompt), -1))
    ELSE Returns(TextValue(inner.value.text, -1))

\* The subclasses of ValueError among the errors of the model.
ValueErrorTypes == { "ValidationError", "JSONDecodeError" }

\* Mutant: the handlers log the error and leave error_for_this_op empty.
ErrorForThisOpLeftEmpty(e) == ""

\* error_for_this_op as the three except clauses of generate_compliment set it.
ErrorForThisOp(e) ==
    CASE e.type = "HTTPError" -> "Network error during critique"
      [] e.type \in ValueErrorTypes -> "Input error for critique"
      [] OTHER -> "Unexpected error during critique"

GenerationError(message, cause) ==
    [type |-> "GenerationError", msg |-> 0, message |-> message,
     cause |-> cause]

\* generate_compliment, given what image_critique(generation_instruction,
\* image_output) did.  critique_text starts as "".
GenerateCompliment(inner) ==
    IF inner.kind = "value" THEN Returns(inner.value)
    ELSE IF ~IsException(inner.err) THEN Raises(inner.err)
    ELSE IF ErrorForThisOp(inner.err) # ""
    THEN Raises(GenerationError(ErrorForThisOp(inner.err), inner.err))
    ELSE Returns(TextValue(Str(<< >>), -1))

WrapperResult(w, original_prompt, inner) ==
    IF w = "rewrite_prompt_with_gemini"
    THEN RewritePromptWithGemini(original_prompt, inner)
    ELSE GenerateCompliment(inner)

\* A caller invokes wrapper w, which calls the function it wraps.
InvokeWrapper(w, prompt) ==
    /\ pc = "idle"
    /\ caller = "none"
    /\ wrapper.pc = "idle"
    /\ wrapper' = [name |-> w, pc |-> "calling", original_prompt |-> prompt,
                   outcome |-> NoOutcome]
    /\ fn' = Wrapped(w)
    /\ caller' = "wrapper"
    /\ pc' = "attempting"
    /\ start_time' = clock
    /\ UNCHANGED <<attempt_number, attempts, waits, obs, remote_calls, outcome,
                   clock, page, page_pc>>
    /\ UNCHANGED buildVars
    /\ UNCHANGED <<calls, handlers, event>>

\* The wrapped function returned or raised: the rest of the wrapper.
WrapperEnd ==
    /\ wrapper.pc = "calling"
    /\ pc \in { "returned", "raised" }
    /\ LET result == WrapperResult(wrapper.name, wrapper.original_prompt, outcome)
       IN  wrapper' = [wrapper EXCEPT
                          !.outcome = result,
                          !.pc = IF result.kind = "value" THEN "returned"
                                 ELSE "raised"]
    /\ UNCHANGED envVars
    /\ UNCHANGED buildVars
    /\ UNCHANGED <<calls, handlers, event>>

NextWrap ==
    \/ \E w \in Wrappers, prompt \in OriginalPrompts : InvokeWrapper(w, prompt)
    \/ AttemptDetailed
    \/ Sleep
    \/ WrapperEnd

SpecWrap == InitDecode /\ [][NextWrap]_vars

(***************************************************************************)
(* The Writers Workshop page: its event handlers, each a generator that    *)
(* the page runs up to its next yield.  handlers[h] is an event handler    *)
(* in progress, stopped at a yield.                                        *)
(***************************************************************************)
MAX_MEDIA_ASSETS == 3

MaxTypedLen == 1      \* length of a prompt typed into the text area
MaxPromptLen == 4     \* longest prompt a template is still added to
MaxGenerations == 2   \* generations started on one page

PromptChars == { " ", "u" }

\* e.value of the text area's blur event.
TypedPrompts == UNION { [1..n -> PromptChars] : n \in 0..MaxTypedLen }

\* e.key of a template chip: the template's prompt.
TemplatePrompts == { << "T" >> }

\* e.gcs_uri of the library chooser.
LibraryUris == { [uri_of_file |-> "library_1"], [uri_of_file |-> "library_2"] }

\* e.files[0].name of an upload.
UploadedFiles == { "upload_1" }

\* store_to_gcs("gemini_writers_studio_references", file.name, ...) lives in
\* common/storage.py; the URI it returns names the file it wrote.
StoreUpload(name) == [uri_of_file |-> name]

\* create_display_url lives in common/utils.py; the URL it returns is a
\* function of the URI.
CreateDisplayUrl(gcs_uri) == [display_of |-> gcs_uri]

\* e.key of a remove button, after int().
RemoveKeys == (0 - 1)..MAX_MEDIA_ASSETS

\* Mutant: one asset too many is let in.
HasRoomOffByOne(uris) == Len(uris) <= MAX_MEDIA_ASSETS

\* len(state.uploaded_media_gcs_uris) < MAX_MEDIA_ASSETS
HasRoom(uris) == Len(uris) < MAX_MEDIA_ASSETS

\* Mutant: the lower bound of the index is not tested.
InRangeNoLowerBound(k, uris) == k < Len(uris)

\* 0 <= index_to_remove < len(state.uploaded_media_gcs_uris)
InRange(k, uris) == 0 <= k /\ k < Len(uris)

\* Python's del list[k]: k counts from 0, a negative k counts from the end.
DelItem(list, k) ==
    LET pos == IF k < 0 THEN Len(list) + k + 1 ELSE k + 1
    IN  [i \in 1..(Len(list) - 1) |-> IF i < pos THEN list[i] ELSE list[i + 1]]

AddMedia(pg, gcs_uri) ==
    [pg EXCEPT !.uploaded_media_gcs_uris = Append(@, gcs_uri),
               !.uploaded_media_display_urls =
                   Append(@, CreateDisplayUrl(gcs_uri))]

MaximumMessage == "You can add a maximum of 3 media assets."

\* show_snackbar up to its first yield.
ShowSnackbar(pg, message) ==
    [pg EXCEPT !.snackbar_message = message, !.show_snackbar = TRUE]

\* state.prompt is truthy and state.prompt.strip() is truthy.
NonBlank(prompt) == prompt # << >> /\ Strip(prompt) # << >>

\* Mutant: the user's prompt is put before the template.
CombinedPromptUserFirst(template_prompt, prompt) ==
    prompt \o << "\n", "\n" >> \o template_prompt

\* f"{template_prompt}\n\n{state.prompt}"
CombinedPrompt(template_prompt, prompt) ==
    template_prompt \o << "\n", "\n" >> \o prompt

\* _generate_text_and_save up to its first yield.
GenerateTextAndSaveBegin(pg) ==
    [pg EXCEPT !.is_generating = TRUE, !.generation_complete = FALSE]

Running(base_prompt, input_gcs_uris) ==
    [pc |-> "generating", base_prompt |-> base_prompt,
     input_gcs_uris |-> input_gcs_uris]

InFlight == { h \in Callers : handlers[h].pc = "generating" }

GenerationsStarted == Len(obs) + Cardinality(InFlight)

\* What generate_text hands to the page: its text and time, or the error its
\* retry envelope raised.
GenerateTextResults ==
    { Returns(Value("text", "conforming", GenerateTextExecutionTime(1))) }
    \cup { Raises([type |-> t, msg |-> 1]) :
             t \in { "ServerError", "KeyboardInterrupt" } }

pageFrame == <<fn, caller, pc, attempt_number, attempts, waits, remote_calls,
               outcome, clock, start_time, page_pc, args, request, builder,
               calls, wrapper>>

OnPromptBlur(value) ==
    /\ page' = [page EXCEPT !.prompt = value]
    /\ event' = Event("on_prompt_blur", 0, value)
    /\ UNCHANGED <<handlers, obs>>
    /\ UNCHANGED pageFrame

OnTemplateClick(h, template_prompt) ==
    /\ handlers[h].pc = "idle"
    /\ IF NonBlank(page.prompt)
       THEN LET combined_prompt == CombinedPrompt(template_prompt, page.prompt)
            IN  /\ Len(combined_prompt) <= MaxPromptLen
                /\ GenerationsStarted < MaxGenerations
                /\ page' = GenerateTextAndSaveBegin(
                               [page EXCEPT !.prompt = combined_prompt])
                /\ handlers' = [handlers EXCEPT ![h] =
                       Running(combined_prompt, page.uploaded_media_gcs_uris)]
       ELSE /\ page' = [page EXCEPT !.prompt = template_prompt]
            /\ UNCHANGED handlers
    /\ event' = Event("on_template_click", 0, template_prompt)
    /\ UNCHANGED obs
    /\ UNCHANGED pageFrame

\* _generate_text_button: while state.is_generating the button is replaced
\* by a disabled one that has no on_click.
GenerateButtonShown(pg) == ~pg.is_generating

OnGenerateTextClick(h) ==
    /\ handlers[h].pc = "idle"
    /\ GenerateButtonShown(page)
    /\ IF page.prompt = << >>
       THEN /\ page' = ShowSnackbar(page, "Please enter a prompt.")
            /\ handlers' = [handlers EXCEPT ![h].pc = "snackbar"]
       ELSE /\ GenerationsStarted < MaxGenerations
            /\ page' = GenerateTextAndSaveBegin(page)
            /\ handlers' = [handlers EXCEPT ![h] =
                   Running(page.prompt, page.uploaded_media_gcs_uris)]
    /\ event' = Event("on_generate_text_click", 0, << >>)
    /\ UNCHANGED obs
    /\ UNCHANGED pageFrame

\* _generate_text_and_save after its first yield: the tracked call of
\* generate_text, then try / except Exception / finally.
GenerateTextAndSaveRest(h) ==
    /\ handlers[h].pc = "generating"
    /\ \E result \in GenerateTextResults :
         /\ obs' = Append(obs, TrackModelCall("GEMINI_WRITERS_WORKSHOP_MODEL_ID",
                                              "", 0, result.kind = "error"))
         /\ page' = AfterGenerateText(page, result)
    /\ handlers' = [handlers EXCEPT ![h] = IdleHandler]
    /\ UNCHANGED event
    /\ UNCHANGED pageFrame

\* show_snackbar after its first yield, and the end of the handler.
SnackbarExpire(h) ==
    /\ handlers[h].pc = "snackbar"
    /\ page' = [page EXCEPT !.show_snackbar = FALSE]
    /\ handlers' = [handlers EXCEPT ![h] = IdleHandler]
    /\ UNCHANGED <<obs, event>>
    /\ UNCHANGED pageFrame

OnMediaSelect(h, gcs_uri) ==
    /\ handlers[h].pc = "idle"
    /\ IF HasRoom(page.uploaded_media_gcs_uris)
       THEN /\ page' = AddMedia(page, gcs_uri)
            /\ UNCHANGED handlers
       ELSE /\ page' = ShowSnackbar(page, MaximumMessage)
            /\ handlers' = [handlers EXCEPT ![h].pc = "snackbar"]
    /\ event' = Event("on_media_select", 0, << gcs_uri.uri_of_file >>)
    /\ UNCHANGED obs
    /\ UNCHANGED pageFrame

\* When the list is full the handler only creates the show_snackbar
\* generator and never runs it: nothing changes.
OnUpload(name) ==
    /\ page' = IF HasRoom(page.uploaded_media_gcs_uris)
               THEN AddMedia(page, StoreUpload(name))
               ELSE page
    /\ event' = Event("on_upload", 0, << name >>)
    /\ UNCHANGED <<handlers, obs>>
    /\ UNCHANGED pageFrame

OnRemoveMedia(index_to_remove) ==
    /\ page' = IF InRange(index_to_remove, page.uploaded_media_gcs_uris)
               THEN [page EXCEPT
                       !.uploaded_media_gcs_uris = DelItem(@, index_to_remove),
                       !.uploaded_media_display_urls =
                           DelItem(@, index_to_remove)]
               ELSE page
    /\ event' = Event("on_remove_media", index_to_remove, << >>)
    /\ UNCHANGED <<handlers, obs>>
    /\ UNCHANGED pageFrame

OnClearClick ==
    /\ page' = [page EXCEPT !.generated_text = "",
                            !.prompt = << >>,
                            !.uploaded_media_gcs_uris = << >>,
                            !.uploaded_media_display_urls = << >>,
                            !.generation_time = 0,
                            !.generation_complete = FALSE,
                            !.previous_media_item_id = "None"]
    /\ event' = Event("on_clear_click", 0, << >>)
    /\ UNCHANGED <<handlers, obs>>
    /\ UNCHANGED pageFrame

OnCloseErrorDialog ==
    /\ page' = [page EXCEPT !.show_error_dialog = FALSE]
    /\ event' = Event("on_close_error_dialog", 0, << >>)
    /\ UNCHANGED <<handlers, obs>>
    /\ UNCHANGED pageFrame

\* The media slots of the page: the library chooser, uploads, the remove
\* buttons and the clear button.
NextMedia ==
    \/ \E h \in Callers, gcs_uri \in LibraryUris : OnMediaSelect(h, gcs_uri)
    \/ \E name \in UploadedFiles : OnUpload(name)
    \/ \E k \in RemoveKeys : OnRemoveMedia(k)
    \/ \E h \in Callers : SnackbarExpire(h)
    \/ OnClearClick

SpecMedia == InitDecode /\ [][NextMedia]_vars

\* The media lists the generation events start from: none or one asset
\* chosen in the library.
InitPage ==
    /\ fn = "" /\ caller = "none" /\ pc = "idle"
    /\ attempt_number = 1 /\ attempts = << >> /\ waits = << >>
    /\ obs = << >> /\ remote_calls = 0 /\ outcome = NoOutcome
    /\ clock = 0 /\ start_time = 0
    /\ page \in { PageInit, AddMedia(PageInit, [uri_of_file |-> "library_1"]) }
    /\ page_pc = "idle"
    /\ args = [prompt |-> "", images |-> << >>]
    /\ request = << >> /\ builder = ""
    /\ calls = NoCalls /\ wrapper = NoWrapper /\ handlers = NoHandlers
    /\ event = NoEvent

\* The prompt, the template chips, the generate and clear buttons, the error
\* dialog.
NextPage ==
    \/ \E value \in TypedPrompts : OnPromptBlur(value)
    \/ \E h \in Callers, t \in TemplatePrompts : OnTemplateClick(h, t)
    \/ \E h \in Callers : OnGenerateTextClick(h)
    \/ \E h \in Callers : GenerateTextAndSaveRest(h)
    \/ \E h \in Callers : SnackbarExpire(h)
    \/ OnClearClick
    \/ OnCloseErrorDialog

SpecPage == InitPage /\ [][NextPage]_vars

\* The page runs a handler that stopped at a yield on to its end.
SpecPageLive ==
    /\ SpecPage
    /\ \A h \in Callers : WF_vars(GenerateTextAndSaveRest(h))

(***************************************************************************)
(* Properties of the retry envelope.                                       *)
(***************************************************************************)
\* Attempt i failed in the remote call itself.
RemoteFailed(i) ==
    attempts[i].remote /\ attempts[i].raised /\ ~attempts[i].decode_failed

\* Attempt i is retried: the envelope goes on to attempt i + 1.
FollowedByAnotherAttempt(i) ==
    \/ Len(attempts) > i
    \/ Len(attempts) = i /\ pc = "sleeping"
    \/ Len(attempts) = i /\ pc = "attempting" /\ attempt_number = i + 1

RemoteCallsMade ==
    Cardinality({ i \in 1..Len(attempts) : attempts[i].remote })

\* C1: one invocation of a retry-decorated function makes at most 3 attempts
\* (and at most 3 remote calls) whatever the remote call does, and an attempt
\* that succeeded is the last one: the invocation has returned after it.
C1_AtMostThreeAttempts ==
    Decorated(fn) =>
        /\ Len(attempts) <= 3
        /\ attempt_number <= 3
        /\ remote_calls <= 3
        /\ \A i \in 1..Len(attempts) :
              ~attempts[i].raised => i = Len(attempts) /\ pc = "returned"

C1_Witness ==
    /\ fn = "rewriter"
    /\ pc = "raised"
    /\ Len(attempts) = 3
    /\ remote_calls = 3

\* C2: when the remote call fails on all 3 attempts of a decorated function,
\* the caller receives the third attempt's error itself, same type and
\* message, not a wrapper, not an earlier error, and not a normal return.
C2_LastErrorUnchanged ==
    ( /\ Decorated(fn)
      /\ Len(attempts) = 3
      /\ \A i \in 1..3 : RemoteFailed(i) )
    => /\ pc = "raised"
       /\ outcome.kind = "error"
       /\ outcome.err = attempts[3].err

C2_Witness ==
    /\ fn = "rewriter"
    /\ Len(attempts) = 3
    /\ \A i \in 1..3 : RemoteFailed(i)
    /\ attempts[1].err # attempts[3].err
    /\ attempts[2].err # attempts[3].err
    /\ outcome.err = attempts[3].err

\* C3: when the remote call fails on attempts 1 and 2 and attempt 3 succeeds,
\* the envelope returns attempt 3's result, exactly 3 attempts were made, and
\* the two waits are 1s then 2s: strictly increasing, each within [1s, 10s].
FailsTwiceThenSucceeds ==
    /\ Decorated(fn)
    /\ Len(attempts) = 3
    /\ RemoteFailed(1)
    /\ RemoteFailed(2)
    /\ attempts[3].remote
    /\ ~attempts[3].raised

C3_FailTwiceThenSucceed ==
    FailsTwiceThenSucceeds
    => /\ pc = "returned"
       /\ outcome.kind = "value"
       /\ outcome.value = attempts[3].value
       /\ remote_calls = 3
       /\ waits = << 1, 2 >>
       /\ waits[1] < waits[2]
       /\ \A k \in 1..Len(waits) : 1 <= waits[k] /\ waits[k] <= 10

C3_Witness ==
    /\ fn = "describe_image"
    /\ FailsTwiceThenSucceeds
    /\ outcome.value.tag = "stripped"

\* C4 as the spec states it: a decoding error propagates to the caller on its
\* first occurrence, and the remote service was called exactly once.
C4_DecodeErrorsNotRetried ==
    \A i \in 1..Len(attempts) :
        attempts[i].decode_failed
        => /\ pc = "raised"
           /\ outcome.err = attempts[i].err
           /\ remote_calls = 1

\* C4, amended: in a retry-decorated function a decoding error is retried like
\* any other exception, so it reaches the caller only when the third attempt
\* fails, the remote service having been called once per attempt; only in
\* the undecorated functions does it propagate on its first occurrence after
\* exactly one remote call.
C4_DecodeErrorsRetried ==
    \A i \in 1..Len(attempts) :
        attempts[i].decode_failed
        => IF Decorated(fn)
           THEN /\ i < 3 => FollowedByAnotherAttempt(i)
                /\ i = 3 => /\ pc = "raised"
                            /\ outcome.err = attempts[3].err
                /\ remote_calls = RemoteCallsMade
                /\ remote_calls <= Len(attempts)
                /\ ~PreCallCanFail(fn) => remote_calls = Len(attempts)
           ELSE /\ i = 1
                /\ pc = "raised"
                /\ outcome.err = attempts[1].err
                /\ remote_calls = 1

C4_Witness ==
    /\ fn = "extract_room_names_from_image"
    /\ Len(attempts) = 3
    /\ \A i \in 1..3 : attempts[i].decode_failed
    /\ remote_calls = 3
    /\ pc = "raised"
    /\ outcome.err.type = "ValidationError"

C6_EveryFunctionRetried ==
    ( /\ pc = "raised"
      /\ RemoteFailed(Len(attempts))
      /\ IsException(outcome.err) )
    => Len(attempts) = 3

\* The attempts that reached client.models.generate_content.
RemoteAttempts == { i \in 1..Len(attempts) : attempts[i].remote }

\* C7: every attempt of a model call has exactly one observation, carrying
\* the model and a task label and finalized whether the remote call returned
\* or raised, so an invocation whose k attempts called the model emits k
\* observations.
C7_OneObservationPerAttempt ==
    /\ Len(obs) = Cardinality(RemoteAttempts)
    /\ \A i \in RemoteAttempts :
          Cardinality({ k \in 1..Len(obs) : obs[k].attempt = i }) = 1
    /\ \A k \in 1..Len(obs) :
          /\ obs[k].attempt \in RemoteAttempts
          /\ obs[k].model = ModelOf(fn)
          /\ obs[k].task # ""
          /\ obs[k].status = "error" <=> RemoteFailed(obs[k].attempt)

\* C8: the execution time generate_text returns, and the page stores in
\* generation_time, is the time elapsed from the start of the call to its
\* completion, all attempts and backoff waits included.
C8_ExecutionTimeIsElapsed ==
    /\ (fn = "generate_text" /\ pc = "returned")
          => outcome.value.execution_time = clock - start_time
    /\ (page_pc = "done" /\ pc = "returned")
          => page.generation_time = clock - start_time

(***************************************************************************)
(* Properties of the request builders.                                     *)
(***************************************************************************)
\* The trailing extension of a locator: from its last "." to its end
\* (empty when the locator has no ".").
TrailingExtension(s) ==
    LET dots == { i \in 1..Len(s) : s[i] = "." }
    IN  IF dots = {} THEN << >>
        ELSE SubSeq(s, CHOOSE i \in dots : \A j \in dots : j <= i, Len(s))

SameIgnoringCase(c, d) ==
    \/ c = d
    \/ \E i \in 1..26 : {c, d} = {UpperCase[i], LowerCase[i]}

MatchesIgnoringCase(e, t) ==
    /\ Len(e) = Len(t)
    /\ \A k \in 1..Len(e) : SameIgnoringCase(e[k], t[k])

\* The extension table of the claim.
ClaimedKinds ==
    { << << ".", "m", "p", "4" >>, "video/mp4" >>,
      << << ".", "m", "o", "v" >>, "video/mp4" >>,
      << << ".", "a", "v", "i" >>, "video/mp4" >>,
      << << ".", "m", "k", "v" >>, "video/mp4" >>,
      << << ".", "w", "e", "b", "m" >>, "video/mp4" >>,
      << << ".", "w", "a", "v" >>, "audio/wav" >>,
      << << ".", "m", "p", "3" >>, "audio/wav" >>,
      << << ".", "f", "l", "a", "c" >>, "audio/wav" >>,
      << << ".", "p", "n", "g" >>, "image/png" >>,
      << << ".", "j", "p", "g" >>, "image/png" >>,
      << << ".", "j", "p", "e", "g" >>, "image/png" >>,
      << << ".", "w", "e", "b", "p" >>, "image/png" >>,
      << << ".", "g", "i", "f" >>, "image/png" >>,
      << << ".", "p", "d", "f" >>, "application/pdf" >> }

\* The kinds the claim's table gives a locator.
KindsOf(s) ==
    { row[2] : row \in { r \in ClaimedKinds :
                            MatchesIgnoringCase(TrailingExtension(s), r[1]) } }

\* C9: generate_text gives every attachment the one kind that the claim's
\* table gives its trailing extension, compared case-insensitively, and
\* application/octet-stream when the table has no row for it.
C9_MediaKindByExtension ==
    builder = "generate_text" =>
        \A i \in 1..Len(args.images) :
            /\ request[i + 1].uri = args.images[i]
            /\ Cardinality(KindsOf(args.images[i])) <= 1
            /\ IF KindsOf(args.images[i]) = {}
               THEN request[i + 1].mime = "application/octet-stream"
               ELSE KindsOf(args.images[i]) = { request[i + 1].mime }

C9_Witness ==
    /\ builder = "generate_text"
    /\ Len(args.images) = 2
    /\ args.images[1] = << "f", ".", "M", "o", "V" >>
    /\ args.images[2] = << "f", ".", "p", "d", "f", ".", "p", "n", "g" >>
    /\ request[2].mime = "video/mp4"
    /\ request[3].mime = "image/png"

\* C10 as the spec states it: in every request the text instruction is the
\* first segment and the attachments follow in the caller's order, none
\* dropped, duplicated or reordered.
C10_TextFirstThenAttachments ==
    builder # "" =>
        /\ Len(request) = 1 + Len(args.images)
        /\ request[1].kind = "text"
        /\ \A i \in 1..Len(args.images) :
              /\ request[i + 1].kind = "uri"
              /\ request[i + 1].uri = args.images[i]

\* The builders whose text instruction carries the caller's prompt.
PromptBuilders ==
    { "generate_text", "generate_image_from_prompt_and_images",
      "image_critique", "analyze_audio_with_gemini", "evaluate_tts_audio",
      "evaluate_media_with_questions", "evaluate_image_with_questions" }

\* C10, amended: in every request but that of analyze_audio_with_gemini the
\* text instruction is the first segment and the attachments follow in the
\* caller's order, none dropped, duplicated or reordered (1 + number of
\* attachments segments); analyze_audio_with_gemini, whose arguments are
\* (audio_uri, prompt), sends the audio attachment first and the text
\* instruction second.
C10_SegmentOrder ==
    builder # "" =>
        /\ Len(request) = 1 + Len(args.images)
        /\ Cardinality({ k \in 1..Len(request) : request[k].kind = "text" }) = 1
        /\ \A k \in 1..Len(request) :
              (request[k].kind = "text" /\ builder \in PromptBuilders)
                 => request[k].text = args.prompt
        /\ IF builder = "analyze_audio_with_gemini"
           THEN /\ request[1].kind = "uri"
                /\ request[1].uri = args.images[1]
                /\ request[2].kind = "text"
           ELSE /\ request[1].kind = "text"
                /\ \A i \in 1..Len(args.images) :
                      /\ request[i + 1].kind = "uri"
                      /\ request[i + 1].uri = args.images[i]

C10_Witness ==
    /\ builder = "generate_image_from_prompt_and_images"
    /\ Len(args.images) = 2
    /\ args.images[1] # args.images[2]
    /\ request[1].text = "p2"
    /\ request[2].uri = args.images[1]
    /\ request[3].uri = args.images[2]

(***************************************************************************)
(* Properties of the generation config.                                    *)
(***************************************************************************)
\* C17: on every attempt of every model-call function, a request whose
\* config asks for response_mime_type application/json also carries a
\* response_schema, present and non-empty.
C17_JsonRequestsCarrySchema ==
    \A i \in 1..Len(attempts) :
        ( /\ attempts[i].remote
          /\ attempts[i].config.response_mime_type = "application/json" )
        => attempts[i].config.response_schema # ""

C17_Witness ==
    /\ fn = "evaluate_tts_audio"
    /\ Len(attempts) = 3
    /\ \A i \in 1..3 :
          /\ attempts[i].remote
          /\ attempts[i].config.response_mime_type = "application/json"
          /\ attempts[i].config.response_schema = "TTSEvaluation"

(***************************************************************************)
(* Properties of the page's generation handler.                            *)
(***************************************************************************)
\* _generate_text_and_save has run to its end after generate_text raised.
HandlerEndedAfterError ==
    /\ caller = "page"
    /\ pc = "raised"
    /\ page_pc \in { "done", "escaped" }

\* C19 as the spec states it: whatever error generate_text raises inside
\* _generate_text_and_save, error_message holds the error, show_error_dialog
\* is true and the handler itself does not raise.
C19_AnyErrorShown ==
    HandlerEndedAfterError
    => /\ page.error_message = outcome.err
       /\ page.show_error_dialog
       /\ page_pc = "done"

\* C19, amended: when generate_text raises an instance of Exception inside
\* _generate_text_and_save, error_message holds the error, show_error_dialog
\* is true and the handler does not raise; an error that is only a
\* BaseException (KeyboardInterrupt, SystemExit) passes the except clause:
\* the finally block still ends the generating state, but no error state is
\* recorded and the handler raises it.
C19_ExceptionsShown ==
    HandlerEndedAfterError
    => /\ ~page.is_generating
       /\ page.generation_complete
       /\ IF IsException(outcome.err)
          THEN /\ page.error_message = outcome.err
               /\ page.show_error_dialog
               /\ page_pc = "done"
          ELSE /\ page.error_message = NoError
               /\ ~page.show_error_dialog
               /\ page_pc = "escaped"

C19_Witness ==
    /\ HandlerEndedAfterError
    /\ Len(attempts) = 3
    /\ outcome.err.type = "ConnectionError"
    /\ page.error_message = attempts[3].err
    /\ page.show_error_dialog

(***************************************************************************)
(* Properties of the media decoder.                                        *)
(***************************************************************************)
\* The attempts of generate_image_from_prompt_and_images that got a response.
MediaAttempts ==
    { i \in 1..Len(attempts) :
         fn = "generate_image_from_prompt_and_images" /\ attempts[i].responded }

\* The parts of the first candidate of the response attempt i received.
FirstCandidateParts(i) ==
    IF attempts[i].response.candidates = << >> THEN << >>
    ELSE attempts[i].response.candidates[1].parts

MediaPositions(parts) ==
    { k \in 1..Len(parts) : parts[k].inline_data.present }

\* The position of the media part before position k, 0 when there is none.
PreviousMedia(parts, k) ==
    IF \E j \in MediaPositions(parts) : j < k
    THEN CHOOSE j \in MediaPositions(parts) :
            /\ j < k
            /\ \A h \in MediaPositions(parts) : h < k => h <= j
    ELSE 0

\* Part k is the Rank-th media part.
Rank(parts, k) == Cardinality({ j \in MediaPositions(parts) : j <= k })

\* The non-empty texts of parts lo..hi, concatenated.
RECURSIVE AccumulatedText(_, _, _)
AccumulatedText(parts, lo, hi) ==
    IF lo > hi THEN << >>
    ELSE ( IF parts[lo].text.form = "str" THEN parts[lo].text.chars ELSE << >> )
         \o AccumulatedText(parts, lo + 1, hi)

\* The result pairs one caption with each media part, in part order.
PairedInOrder(i) ==
    LET parts == FirstCandidateParts(i)
        v == attempts[i].value
    IN  /\ ~attempts[i].raised
        /\ Len(v.gcs_uris) = Cardinality(MediaPositions(parts))
        /\ Len(v.captions) = Len(v.gcs_uris)
        /\ \A k \in MediaPositions(parts) :
              v.gcs_uris[Rank(parts, k)].uri_of_file = k - 1

\* C11 as the spec states it: each media part's caption is the text
\* accumulated since the previous media part (or since the start), in part
\* order.
C11_CaptionIsAccumulatedText ==
    \A i \in MediaAttempts :
        /\ PairedInOrder(i)
        /\ \A k \in MediaPositions(FirstCandidateParts(i)) :
              attempts[i].value.captions[Rank(FirstCandidateParts(i), k)]
                 = AccumulatedText(FirstCandidateParts(i),
                                   PreviousMedia(FirstCandidateParts(i), k) + 1,
                                   k)

\* C11, amended: each media part's caption is the text accumulated since the
\* previous media part (or since the start) with its leading and trailing
\* whitespace removed, in part order; the buffer restarts empty after each
\* media part, so text before one media part never reaches a later caption
\* and a media part with no text since the previous one gets the empty
\* caption.
C11_CaptionIsStrippedAccumulatedText ==
    \A i \in MediaAttempts :
        /\ PairedInOrder(i)
        /\ \A k \in MediaPositions(FirstCandidateParts(i)) :
              attempts[i].value.captions[Rank(FirstCandidateParts(i), k)]
                 = Strip(AccumulatedText(FirstCandidateParts(i),
                                         PreviousMedia(FirstCandidateParts(i), k) + 1,
                                         k))

\* Parts [text "A", media, text "B ", media] gave captions ["A", "B"].
C11_Witness ==
    /\ MediaAttempts = { 1 }
    /\ pc = "returned"
    /\ FirstCandidateParts(1) =
          << Part(Str(<< "A" >>), NoBlob),
             Part(NoneText, Blob("None", "d1")),
             Part(Str(<< "B", " " >>), NoBlob),
             Part(NoneText, Blob("", "d2")) >>
    /\ outcome.value.captions = << << "A" >>, << "B" >> >>
    /\ Len(outcome.value.gcs_uris) = 2

\* C16: every inline media payload is stored, with mime type image/png when
\* its mime type is absent or empty and with its declared mime type
\* otherwise; neither case fails the call.
C16_MimeTypeDefaultsToPng ==
    \A i \in MediaAttempts :
        /\ ~attempts[i].raised
        /\ Len(attempts[i].stored)
              = Cardinality(MediaPositions(FirstCandidateParts(i)))
        /\ \A k \in MediaPositions(FirstCandidateParts(i)) :
              LET declared == FirstCandidateParts(i)[k].inline_data.mime_type
                  call == attempts[i].stored[Rank(FirstCandidateParts(i), k)]
              IN  /\ declared \in { "None", "" } => call.mime_type = "image/png"
                  /\ declared \notin { "None", "" } => call.mime_type = declared

\* Payloads with no mime type, an empty one and image/jpeg were stored.
C16_Witness ==
    /\ MediaAttempts = { 1 }
    /\ pc = "returned"
    /\ Len(FirstCandidateParts(1)) = 3
    /\ \A k \in 1..3 : FirstCandidateParts(1)[k].inline_data.present
    /\ FirstCandidateParts(1)[1].inline_data.mime_type = "None"
    /\ FirstCandidateParts(1)[2].inline_data.mime_type = ""
    /\ FirstCandidateParts(1)[3].inline_data.mime_type = "image/jpeg"
    /\ attempts[1].stored[1].mime_type = "image/png"
    /\ attempts[1].stored[2].mime_type = "image/png"
    /\ attempts[1].stored[3].mime_type = "image/jpeg"

\* C18: store_to_gcs is called only by generate_image_from_prompt_and_images
\* and only after a response arrived: once per inline media part of the
\* first candidate, in part order, with that part's payload; a text part, a
\* response with no candidates, a later candidate, a failed remote call and
\* every other function make no call.
C18_StoreOnlyOnMediaPath ==
    \A i \in 1..Len(attempts) :
        IF i \in MediaAttempts
        THEN /\ Len(attempts[i].stored)
                   = Cardinality(MediaPositions(FirstCandidateParts(i)))
             /\ \A k \in MediaPositions(FirstCandidateParts(i)) :
                   LET call == attempts[i].stored[Rank(FirstCandidateParts(i), k)]
                   IN  /\ call.file_index = k - 1
                       /\ call.contents = FirstCandidateParts(i)[k].inline_data.data
        ELSE attempts[i].stored = << >>

\* A response of two candidates, each with one media part, made one call.
C18_Witness ==
    /\ MediaAttempts = { 1 }
    /\ Len(attempts[1].response.candidates) = 2
    /\ FirstCandidateParts(1) = << Part(NoneText, Blob("", "d2")) >>
    /\ attempts[1].stored =
          << [file_index |-> 0, mime_type |-> "image/png", contents |-> "d2"] >>

(***************************************************************************)
(* Properties of the text and JSON decoders.                               *)
(***************************************************************************)
\* Attempt i received a response with no text and no media: response.text
\* is None or "", and no part of the first candidate has text or media.
EmptyResponse(i) ==
    /\ attempts[i].responded
    /\ ~TruthyText(attempts[i].response.text)
    /\ \A k \in 1..Len(FirstCandidateParts(i)) :
          /\ ~TruthyText(FirstCandidateParts(i)[k].text)
          /\ ~FirstCandidateParts(i)[k].inline_data.present

\* C12: a free-text or media decoding function that receives an empty
\* response fails with the typed EmptyResponse error; it neither raises
\* another error nor returns a value.
C12_EmptyResponseIsTypedFailure ==
    \A i \in 1..Len(attempts) :
        ( /\ fn \in TextFunctions \cup MediaFunctions
                       \cup { "analyze_audio_with_gemini" }
          /\ EmptyResponse(i) )
        => /\ attempts[i].raised
           /\ attempts[i].err.type = "EmptyResponse"

\* The fields each declared schema requires of the JSON object.
RequiredFields(f) ==
    CASE f = "extract_room_names_from_image" -> { "rooms" }
      [] f = "generate_transformation_prompts" -> { "transformations" }
      [] f = "generate_critique_questions" -> { "questions" }
      [] f = "analyze_audio_with_gemini" ->
            { "audio-analysis", "genre-quality", "prompt-alignment" }

\* Attempt i received text that is JSON.
JsonResponse(i) ==
    attempts[i].responded /\ attempts[i].response.text.form = "json"

\* C13: a JSON object that lacks a field its schema requires is rejected
\* with a validation error that names the field, and is never returned.
C13_MissingFieldRejected ==
    \A i \in 1..Len(attempts) :
        ( /\ fn \in SchemaFunctions
          /\ JsonResponse(i)
          /\ RequiredFields(fn) \ DOMAIN attempts[i].response.text.doc # { } )
        => /\ attempts[i].raised
           /\ attempts[i].err.type = "ValidationError"
           /\ \A f \in RequiredFields(fn) \ DOMAIN attempts[i].response.text.doc :
                 \E loc \in attempts[i].err.locs : loc.field = f

\* The length the schema declares for the list a function returns.
DeclaredLength(f) ==
    IF f = "generate_transformation_prompts" THEN 3 ELSE 5

LengthBoundedFunctions ==
    { "generate_transformation_prompts", "generate_critique_questions" }

\* Attempt i received a JSON object whose list has a count other than the
\* declared one.
WrongCount(i) ==
    /\ JsonResponse(i)
    /\ ListField(ResponseSchema(fn)) \in DOMAIN attempts[i].response.text.doc
    /\ Len(attempts[i].response.text.doc[ListField(ResponseSchema(fn))])
          # DeclaredLength(fn)

\* C14: generate_transformation_prompts returns only lists of 3 and
\* generate_critique_questions only lists of 5; a response with another
\* count fails its attempt with a validation error at the list field, is
\* followed by another attempt while attempts remain, and reaches the caller
\* as that error on the third attempt.
C14_ListLengthEnforced ==
    fn \in LengthBoundedFunctions
    => /\ pc = "returned" => Len(outcome.value.items) = DeclaredLength(fn)
       /\ \A i \in 1..Len(attempts) :
             /\ ( attempts[i].responded /\ ~attempts[i].raised )
                => Len(attempts[i].value.items) = DeclaredLength(fn)
             /\ WrongCount(i)
                => /\ attempts[i].raised
                   /\ attempts[i].err.type = "ValidationError"
                   /\ \E loc \in attempts[i].err.locs :
                         /\ loc.field = ListField(ResponseSchema(fn))
                         /\ loc.index = -1
                   /\ i < StopAfterAttempt => FollowedByAnotherAttempt(i)
                   /\ i = StopAfterAttempt
                      => ( pc = "raised" /\ outcome.err = attempts[i].err )

\* Lists of 2 and of 4 transformations failed, a list of 3 was returned.
C14_Witness ==
    /\ fn = "generate_transformation_prompts"
    /\ pc = "returned"
    /\ Len(attempts) = 3
    /\ \A i \in 1..3 : JsonResponse(i)
                       /\ "transformations" \in DOMAIN attempts[i].response.text.doc
    /\ Len(attempts[1].response.text.doc.transformations) = 2
    /\ Len(attempts[2].response.text.doc.transformations) = 4
    /\ Len(attempts[3].response.text.doc.transformations) = 3
    /\ attempts[1].raised /\ attempts[2].raised
    /\ Len(outcome.value.items) = 3

\* Document doc conforms to the schema f declares.
Conforms(f, doc) ==
    /\ RequiredFields(f) \subseteq DOMAIN doc
    /\ CASE f = "extract_room_names_from_image" ->
               \A k \in 1..Len(doc.rooms) : "room_name" \in DOMAIN doc.rooms[k]
         [] f = "generate_transformation_prompts" ->
               /\ Len(doc.transformations) = 3
               /\ \A k \in 1..Len(doc.transformations) :
                     { "title", "prompt" } \subseteq DOMAIN doc.transformations[k]
         [] f = "generate_critique_questions" ->
               /\ Len(doc.questions) = 5
               /\ \A k \in 1..Len(doc.questions) :
                     "question" \in DOMAIN doc.questions[k]
         [] f = "analyze_audio_with_gemini" -> Len(doc["genre-quality"]) >= 1

\* C15: a response whose text is JSON conforming to the schema is decoded,
\* without an error, to the parsed JSON: extract_room_names_from_image
\* returns the room_name of each item of rooms, in order;
\* analyze_audio_with_gemini returns the parsed object itself; the other
\* list functions return their items' declared fields, in order.
C15_ConformingJsonRoundTrips ==
    \A i \in 1..Len(attempts) :
        ( /\ fn \in SchemaFunctions
          /\ JsonResponse(i)
          /\ Conforms(fn, attempts[i].response.text.doc) )
        => LET doc == attempts[i].response.text.doc
               v == attempts[i].value
           IN  /\ ~attempts[i].raised
               /\ fn = "extract_room_names_from_image"
                  => /\ Len(v.items) = Len(doc.rooms)
                     /\ \A k \in 1..Len(doc.rooms) :
                           v.items[k] = doc.rooms[k].room_name
               /\ fn = "analyze_audio_with_gemini" => v.of = doc
               /\ fn = "generate_transformation_prompts"
                  => /\ Len(v.items) = Len(doc.transformations)
                     /\ \A k \in 1..Len(doc.transformations) :
                           /\ v.items[k].title = doc.transformations[k].title
                           /\ v.items[k].prompt = doc.transformations[k].prompt
               /\ fn = "generate_critique_questions"
                  => /\ Len(v.items) = Len(doc.questions)
                     /\ \A k \in 1..Len(doc.questions) :
                           v.items[k] = doc.questions[k].question

\* Two rooms, one with a field the schema does not declare, came back as
\* their two names in order.
C15_Witness ==
    /\ fn = "extract_room_names_from_image"
    /\ pc = "returned"
    /\ Len(attempts) = 1
    /\ JsonResponse(1)
    /\ attempts[1].response.text.doc =
          [rooms |-> << [room_name |-> "Kitchen"],
                        [room_name |-> "Bath", area |-> "12"] >>]
    /\ outcome.value.items = << "Kitchen", "Bath" >>

(***************************************************************************)
(* Properties of invocations running at once.                              *)
(***************************************************************************)
\* Invocation p went as an invocation running alone goes: its attempts are
\* numbered 1, 2, ... and are at most 3, every attempt but the last failed
\* with an error the envelope retries, and its outcome is that of its own
\* last attempt; it ends with an error the envelope retries only after 3
\* attempts of its own.
RunsAsIfAlone(p) ==
    LET c == calls[p]
        last == c.attempts[Len(c.attempts)]
    IN  /\ Len(c.attempts) <= StopAfterAttempt
        /\ \A i \in 1..Len(c.attempts) : c.attempts[i].n = i
        /\ \A i \in 1..(Len(c.attempts) - 1) :
              c.attempts[i].raised /\ IsException(c.attempts[i].err)
        /\ Len(c.waits) = c.attempt_number - 1
        /\ c.pc = "returned"
           => /\ ~last.raised
              /\ c.outcome = [kind |-> "value", value |-> last.value,
                              err |-> NoError]
        /\ c.pc = "raised"
           => /\ last.raised
              /\ c.outcome = [kind |-> "error", value |-> NoValue,
                              err |-> last.err]
              /\ IsException(last.err) => Len(c.attempts) = StopAfterAttempt
        /\ c.pc = "sleeping"
           => last.raised /\ IsException(last.err)
              /\ Len(c.attempts) < StopAfterAttempt
        /\ c.pc \in { "idle", "attempting" } => c.outcome = NoOutcome

\* C20: when two invocations of retry-decorated functions run at once, under
\* every interleaving each has its own budget of 3 attempts and its own
\* outcome: the failures of one neither use up attempts of the other nor
\* change the value or the error the other ends with.
C20_InvocationsIndependent == \A p \in Callers : RunsAsIfAlone(p)

\* describe_image failed three times while generate_text, started and served
\* between its attempts, returned on its first attempt.
C20_Witness ==
    /\ calls["c1"].fn = "describe_image"
    /\ calls["c1"].pc = "raised"
    /\ Len(calls["c1"].attempts) = 3
    /\ calls["c1"].outcome.err.type = "ServerError"
    /\ calls["c2"].fn = "generate_text"
    /\ calls["c2"].pc = "returned"
    /\ Len(calls["c2"].attempts) = 1
    /\ Len(obs) = 4
    /\ obs[2].task = "generate_text"

(***************************************************************************)
(* Further properties of the decoders.                                     *)
(***************************************************************************)
\* C21: analyze_audio_with_gemini returns the analysis or None and never
\* raises: an attempt whose remote call or JSON parsing failed ends the call
\* with the value None.
C21_AudioErrorsReturnNone ==
    fn = "analyze_audio_with_gemini"
    => /\ pc # "raised"
       /\ \A i \in 1..Len(attempts) :
             attempts[i].raised
             => ( pc = "returned" /\ outcome.value = NoneValue )

\* The position of the last media part, 0 when there is none.
LastMedia(parts) == PreviousMedia(parts, Len(parts) + 1)

\* The captions of the media parts of parts, one per media part in order.
CaptionsOf(parts) ==
    [r \in 1..Cardinality(MediaPositions(parts)) |->
        LET k == CHOOSE j \in MediaPositions(parts) : Rank(parts, j) = r
        IN  Strip(AccumulatedText(parts, PreviousMedia(parts, k) + 1, k))]

\* C26: generate_image_from_prompt_and_images returns as many URIs as
\* captions, one of each per inline media part of the first candidate; the
\* captions are those of the parts up to the last media part, so text after
\* it reaches no caption; a response with no candidates gives two empty
\* lists, without an error.
C26_UrisAndCaptionsMatchMedia ==
    \A i \in MediaAttempts :
        LET parts == FirstCandidateParts(i)
            v == attempts[i].value
        IN  /\ ~attempts[i].raised
            /\ Len(v.gcs_uris) = Cardinality(MediaPositions(parts))
            /\ Len(v.captions) = Cardinality(MediaPositions(parts))
            /\ v.captions = CaptionsOf(SubSeq(parts, 1, LastMedia(parts)))
            /\ attempts[i].response.candidates = << >>
               => ( v.gcs_uris = << >> /\ v.captions = << >> )

\* Parts [text "A", media, text "A"] gave one URI and the one caption "A".
C26_Witness ==
    /\ MediaAttempts = { 1 }
    /\ pc = "returned"
    /\ FirstCandidateParts(1) =
          << Part(Str(<< "A" >>), NoBlob),
             Part(NoneText, Blob("image/jpeg", "d1")),
             Part(Str(<< "A" >>), NoBlob) >>
    /\ Len(outcome.value.gcs_uris) = 1
    /\ outcome.value.captions = << << "A" >> >>

(***************************************************************************)
(* Properties of the wrappers.                                             *)
(***************************************************************************)
WrapperEnded(w) ==
    wrapper.name = w /\ wrapper.pc \in { "returned", "raised" }

\* What rewrite_prompt_with_gemini hands back when rewriter returned: the
\* rewriter's text if it is non-empty, the original prompt otherwise; a
\* non-empty original prompt never gives an empty result.
RewriteReturns ==
    outcome.kind = "value"
    => /\ wrapper.pc = "returned"
       /\ TruthyText(outcome.value.text)
          => wrapper.outcome.value.text = outcome.value.text
       /\ ~TruthyText(outcome.value.text)
          => wrapper.outcome.value.text = Str(wrapper.original_prompt)
       /\ wrapper.original_prompt # << >>
          => wrapper.outcome.value.text.chars # << >>

C28_OnlyGenerationErrorEscapes ==
    WrapperEnded("generate_compliment")
    => /\ outcome.kind = "value" => wrapper.outcome = Returns(outcome.value)
       /\ outcome.kind = "error"
          => /\ wrapper.pc = "raised"
             /\ wrapper.outcome.err.type = "GenerationError"

\* C28, amended: generate_compliment returns image_critique's text or
\* raises; an instance of Exception raised by image_critique (after its 3
\* attempts) becomes a GenerationError with a non-empty message built from
\* it; an error that is only a BaseException leaves generate_compliment as
\* it is; the function returns nothing when image_critique failed.
C28_ExceptionsBecomeGenerationError ==
    WrapperEnded("generate_compliment")
    => /\ outcome.kind = "value" => wrapper.outcome = Returns(outcome.value)
       /\ outcome.kind = "error"
          => /\ wrapper.pc = "raised"
             /\ wrapper.outcome.kind = "error"
             /\ IsException(outcome.err)
                => /\ wrapper.outcome.err.type = "GenerationError"
                   /\ wrapper.outcome.err.message # ""
                   /\ wrapper.outcome.err.cause = outcome.err
                   /\ Len(attempts) = StopAfterAttempt
             /\ ~IsException(outcome.err)
                => wrapper.outcome.err = outcome.err

\* image_critique failed three times with ConnectionError: GenerationError.
C28_Witness ==
    /\ WrapperEnded("generate_compliment")
    /\ Len(attempts) = 3
    /\ \A i \in 1..3 : attempts[i].err.type = "ConnectionError"
    /\ wrapper.pc = "raised"
    /\ wrapper.outcome.err.type = "GenerationError"
    /\ wrapper.outcome.err.cause.type = "ConnectionError"

(***************************************************************************)
(* Properties of the Writers Workshop page.                                *)
(***************************************************************************)
\* C23: after any sequence of on_upload, on_media_select, on_remove_media
\* and on_clear_click events the page holds at most MAX_MEDIA_ASSETS = 3
\* attached media.
C23_AtMostThreeMedia ==
    /\ MAX_MEDIA_ASSETS = 3
    /\ Len(page.uploaded_media_gcs_uris) <= MAX_MEDIA_ASSETS

\* An upload arrived when three library assets were attached: it was not
\* added.
C23_Witness ==
    /\ event.handler = "on_upload"
    /\ Len(page.uploaded_media_gcs_uris) = MAX_MEDIA_ASSETS
    /\ \A i \in 1..MAX_MEDIA_ASSETS :
          page.uploaded_media_gcs_uris[i] \in LibraryUris

\* Entry i of the display URLs is the one made for entry i of the URIs.
Aligned(pg) ==
    /\ Len(pg.uploaded_media_gcs_uris) = Len(pg.uploaded_media_display_urls)
    /\ \A i \in 1..Len(pg.uploaded_media_gcs_uris) :
          pg.uploaded_media_display_urls[i] =
              CreateDisplayUrl(pg.uploaded_media_gcs_uris[i])

\* The list without its entry at (0-based) index k, the rest in order.
Without(list, k) == SubSeq(list, 1, k) \o SubSeq(list, k + 2, Len(list))

RemoveMediaEffect(k) ==
    LET uris == page.uploaded_media_gcs_uris
        urls == page.uploaded_media_display_urls
    IN  IF 0 <= k /\ k < Len(uris)
        THEN /\ page'.uploaded_media_gcs_uris = Without(uris, k)
             /\ page'.uploaded_media_display_urls = Without(urls, k)
        ELSE /\ page'.uploaded_media_gcs_uris = uris
             /\ page'.uploaded_media_display_urls = urls

\* C24: the two media lists always have the same length and are aligned
\* index by index; on_remove_media with an index in range removes that index
\* from both lists and keeps the order of the rest, and with an index out of
\* range it changes neither list.
C24_MediaListsAligned ==
    /\ [] Aligned(page)
    /\ [][\A k \in RemoveKeys : OnRemoveMedia(k) => RemoveMediaEffect(k)]_vars

\* The middle one of three different assets was removed.
C24_Witness ==
    /\ event = Event("on_remove_media", 1, << >>)
    /\ page.uploaded_media_gcs_uris =
           << [uri_of_file |-> "library_1"], [uri_of_file |-> "upload_1"] >>
    /\ page.uploaded_media_display_urls =
           << CreateDisplayUrl([uri_of_file |-> "library_1"]),
              CreateDisplayUrl([uri_of_file |-> "upload_1"]) >>

\* The prompt is neither empty nor made of whitespace only.
HasText(prompt) == \E i \in 1..Len(prompt) : prompt[i] \notin Whitespace

\* What one on_template_click does, for handler h and template t.
TemplateClickEffect(h, t) ==
    IF HasText(page.prompt)
    THEN /\ page'.prompt = t \o << "\n", "\n" >> \o page.prompt
         /\ handlers'[h] = Running(page'.prompt, page.uploaded_media_gcs_uris)
         /\ page'.is_generating
         /\ ~page'.generation_complete
    ELSE /\ page'.prompt = t
         /\ handlers' = handlers
         /\ obs' = obs
         /\ page'.is_generating = page.is_generating

\* C22: on_template_click with a prompt that has text makes the prompt the
\* template, a blank line, then the user's prompt, and starts a generation
\* with that combined prompt and the current media list; with an empty or
\* whitespace-only prompt it makes the prompt the template and starts no
\* generation: no handler is left in progress, no call of generate_text is
\* made and is_generating stays as it was.
C22_TemplateClickCombinesOrFills ==
    [][\A h \in Callers, t \in TemplatePrompts :
         OnTemplateClick(h, t) => TemplateClickEffect(h, t)]_vars

\* A template was clicked over the typed prompt "u" with one asset attached:
\* a first generation is in progress with the combined prompt and the asset.
C22_Witness ==
    /\ event = Event("on_template_click", 0, << "T" >>)
    /\ page.prompt = << "T", "\n", "\n", "u" >>
    /\ Len(page.uploaded_media_gcs_uris) = 1
    /\ handlers["c1"] = Running(page.prompt, page.uploaded_media_gcs_uris)
    /\ handlers["c2"] = IdleHandler
    /\ page.is_generating
    /\ obs = << >>

RunEnds(h) ==
    handlers[h].pc = "generating" /\ handlers'[h].pc # "generating"

\* C25: every run of _generate_text_and_save that starts ends, and ends with
\* is_generating = false and generation_complete = true whether generate_text
\* returned or raised (an error that is no Exception included); is_generating
\* is true, and so is_generating with generation_complete false, only while a
\* run is between its start and its end.
C25_GenerationAlwaysEnds ==
    /\ \A h \in Callers :
          (handlers[h].pc = "generating") ~> (handlers[h].pc # "generating")
    /\ [][\A h \in Callers :
            RunEnds(h) => ~page'.is_generating /\ page'.generation_complete]_vars
    /\ [](page.is_generating => InFlight # { })

\* Two runs have ended, one because generate_text raised, and the page is
\* not generating.
C25_Witness ==
    /\ Len(obs) = 2
    /\ obs[1].status = "error"
    /\ obs[2].status = "success"
    /\ InFlight = { }
    /\ ~page.is_generating
    /\ page.generation_complete

====
